---- MODULE Spec2Model ----
(***************************************************************************)
(* State-machine model of the tts-hub backend (backend/app.py and          *)
(* backend/favorites_store.py).  Text values are sequences of one-letter   *)
(* strings so that slugging, truncation and suffixing are computed letter  *)
(* by letter, as the Python code computes them.                            *)
(***************************************************************************)
EXTENDS Integers, Sequences, FiniteSets, TLC

VARIABLES
    profiles,   \* favorites file: the "profiles" list, records [id, slug]
    uuidCtr,    \* number of uuid4() values drawn so far
    favOp,      \* last FavoritesStore call: [op, ok]
    spIn,       \* arguments of one _apply_replace_with_crossfade call
    spOut,      \* its outcome: [done, err, out]
    outDir,     \* names of the files in OUTPUT_DIR
    chatRoot,   \* output_audio_*.mp3 files in CHATTT_ROOT: [name, mtime]
    synCtr,     \* number of engine runs started so far
    xttsServer, \* whether XTTS_SERVER_URL is set
    previews,   \* voice ids with a cached XTTS preview
    synLast,    \* the last /synthesise or /voices/preview request
    ytCache,    \* files of media_cache/youtube: [name, ext, size, mtime]
    ingJobs,    \* job directories of media_edits: [id, mtime]
    ingClock,   \* time of the last /media/transcribe request
    lastCleanup,\* _last_cleanup_ts, NoTime for None
    ingCtr,     \* number of /media/transcribe requests so far
    ingPrev,    \* url and download success of the request before the last
    ingLast,    \* the last /media/transcribe request
    txWords,    \* "words" of the job's transcript.json
    txSegs,     \* "segments" of the job's transcript.json
    alCtr,      \* number of /media/align_region requests so far
    alLast,     \* the last /media/align_region request
    jobMeta,    \* job_meta.json and the original input of the media job
    jobFiles,   \* files of the job directory: [name, samples]
    mediaDirs,  \* job ids with a directory under media_edits
    rpCtr,      \* number of /media/replace_preview and /media/apply requests so far
    rpLast,     \* the last /media/replace_preview or /media/apply request
    pvFiles,    \* preview clips on disk: [path, gen], gen the call that wrote it
    pvCtr,      \* number of preview generator calls so far
    pvPrev,     \* the generator call before the last
    pvLast,     \* the last generator call
    engFiles,   \* the files of the engines that are in place
    engCtr,     \* number of requests that resolved an engine so far
    engPrev,    \* engine key and status of the request before the last
    engLast,    \* the last request that resolved an engine
    clClock,    \* the clock read by time.time() in the cleanup
    clLast,     \* _last_cleanup_ts as the cleanup threads see it, NoTime for None
    clLock,     \* holder of _cleanup_lock, 0 when free
    clPc,       \* where each thread stands in _maybe_cleanup_media_artifacts
    clNow,      \* the local "now" of each thread
    clPasses,   \* the reaping passes started: [thread, now, start]
    clCalls,    \* number of cleanup calls entered so far
    clEnded,    \* how the cleanup calls ended so far
    ttsInstance,\* _tts_instance: 0 for None, else the number of its construction
    ttsLock,    \* holder of _tts_lock, 0 when free
    ttsFiles,   \* whether MODEL_PATH and VOICES_PATH exist
    ttsPc,      \* where each thread stands in get_tts
    ttsBuilt,   \* number of Kokoro instances constructed so far
    ttsCalls,   \* number of get_tts calls entered so far
    ttsOut,     \* how the get_tts calls ended: [thread, raised, got, handle]
    stFile,     \* out/media_stats.json: [state, data], data the list of each kind
    stHist,     \* the samples written to the file so far, by kind, in order
    stCtr,      \* number of the last sample
    stCalls,    \* number of _record_stat calls entered so far
    stDone,     \* the calls that ended: [kind, sample, ended, recorded]
    stPc,       \* where each thread stands in _record_stat
    stLocal,    \* the kind, sample and "data" of each thread
    \* favorites file and transcript.json under concurrent readers
    fvFile,     \* the favorites file
    fvTmp,      \* the ".tmp" file next to it
    fvPc,       \* position of the favorites writer
    fvVer,      \* version of the document the favorites writer writes
    txFile,     \* transcript.json of one job
    txPc,       \* position of the transcript writer
    txVer,      \* version of the document the transcript writer writes
    fwSeen,     \* what concurrent readers have read
    \* streaming LLM proxy
    pxPc,       \* position of the generator _proxy
    pxFrames,   \* the frames sent to the client, in order
    pxAnswer,   \* what requests.post met
    pxBody,     \* the lines the upstream sent
    pxLeft,     \* the lines not yet read by the loop
    pxOpenAt,   \* number of frames sent when requests.post was called
    pxEnd,      \* how the stream ended
    \* the YouTube cache directory
    ycFiles,    \* files of media_cache/youtube
    ycClock,    \* time of the latest request
    ycLast,     \* _last_cleanup_ts
    ycCtr,      \* number of requests
    ycReaped,   \* files the cleanup of the latest request removed
    ycKept,     \* files the cleanup of the latest request left
    ycInput,    \* the input the latest transcribe request resolved
    \* voice catalogs
    vcArchive,  \* the voices archive of the bundled bank
    vcDir,      \* sorted listing of the XTTS voice directory
    vcCached,   \* _cached_voices
    vcLast,     \* the latest catalog read
    vcCtr,      \* number of operations
    \* alignment diff stats
    dfIn,       \* prev_words, new_words and window
    dfDone,     \* whether the diff was computed
    dfOut,      \* the dict returned
    \* concurrent ChatTTS requests
    ctFiles,    \* output_audio_*.mp3 in CHATTT_ROOT
    ctClock,    \* clock of the file times
    ctCalls,    \* number of requests started
    ctPc,       \* position of each request thread
    ctLocal,    \* request number, before_files and whether the run wrote
    ctDone,     \* the requests that ended
    \* audition
    auCtr,      \* number of audition requests
    auLast,     \* the latest audition request and the clip it built
    \* ChatTTS presets
    cpPresets,  \* preset files on disk
    cpCache,    \* _chattts_voice_cache
    cpLast,     \* the latest prepared payload and the presets at that time
    cpCtr,      \* number of requests
    lpClock,    \* the second of the last preview
    lpPreviews, \* audio of preview-<ts>.wav per second ts, <<>> when absent
    lpLatest,   \* latest_preview.wav: absent, a symlink or a plain file
    lpLast,     \* the last replace_preview call
    lpFinal,    \* the last apply
    lpCtr,      \* number of replace_preview calls
    cvDir,      \* the names in the XTTS voice directory
    cvLast,     \* the last custom-voice creation
    cvCtr,      \* number of custom-voice requests
    pkIn,       \* two preview requests
    pkOut       \* their preview paths

favVars == <<profiles, uuidCtr, favOp>>
spVars == <<spIn, spOut>>
synVars == <<outDir, chatRoot, synCtr, xttsServer, previews, synLast>>
ingVars == <<ytCache, ingJobs, ingClock, lastCleanup, ingCtr, ingPrev, ingLast>>
alVars == <<txWords, txSegs, alCtr, alLast>>
rpVars == <<jobMeta, jobFiles, mediaDirs, rpCtr, rpLast>>
pvVars == <<pvFiles, pvCtr, pvPrev, pvLast>>
engVars == <<engFiles, engCtr, engPrev, engLast>>
stVars == <<stFile, stHist, stCtr, stCalls, stDone, stPc, stLocal>>
ttsVars == <<ttsInstance, ttsLock, ttsFiles, ttsPc, ttsBuilt, ttsCalls, ttsOut>>
fwVars == <<fvFile, fvTmp, fvPc, fvVer, txFile, txPc, txVer, fwSeen>>
pxVars == <<pxPc, pxFrames, pxAnswer, pxBody, pxLeft, pxOpenAt, pxEnd>>
ycVars == <<ycFiles, ycClock, ycLast, ycCtr, ycReaped, ycKept, ycInput>>
vcVars == <<vcArchive, vcDir, vcCached, vcLast, vcCtr>>
dfVars == <<dfIn, dfDone, dfOut>>
ctVars == <<ctFiles, ctClock, ctCalls, ctPc, ctLocal, ctDone>>
auVars == <<auCtr, auLast>>
cpVars == <<cpPresets, cpCache, cpLast, cpCtr>>
lpVars == <<lpClock, lpPreviews, lpLatest, lpLast, lpFinal, lpCtr>>
cvVars == <<cvDir, cvLast, cvCtr>>
pkVars == <<pkIn, pkOut>>
clVars == <<clClock, clLast, clLock, clPc, clNow, clPasses, clCalls, clEnded>>

----------------------------------------------------------------------------
(* Generic helpers *)

Min(a, b) == IF a < b THEN a ELSE b
Max(a, b) == IF a > b THEN a ELSE b

\* s[:n]
Take(s, n) == SubSeq(s, 1, Min(Len(s), n))

\* the one-letter text ch repeated n times
Rep(ch, n) == [i \in 1..n |-> ch]

DigitCh == <<"0", "1", "2", "3", "4", "5", "6", "7", "8", "9">>

\* str(n) for n >= 0
RECURSIVE Dec(_)
Dec(n) == IF n < 10 THEN <<DigitCh[n + 1]>>
          ELSE Dec(n \div 10) \o <<DigitCh[(n % 10) + 1]>>

----------------------------------------------------------------------------
(* favorites_store.py *)

\* profile[:60] and label[:60]
SlugMax == 60

\* bounds of the favorites model
MaxProfiles == 2
MaxUuid == 2
MaxImport == 1

\* ch.lower() on the letters the inputs use
UpperLetters ==
    <<"A", "B", "C", "D", "E", "F", "G", "H", "I", "J", "K", "L", "M", "N", "O", "P", "Q",
      "R", "S", "T", "U", "V", "W", "X", "Y", "Z">>
LowerLetters ==
    <<"a", "b", "c", "d", "e", "f", "g", "h", "i", "j", "k", "l", "m", "n", "o", "p", "q",
      "r", "s", "t", "u", "v", "w", "x", "y", "z">>

LowerCh(ch) ==
    IF \E i \in 1..26 : UpperLetters[i] = ch
    THEN LowerLetters[CHOOSE i \in 1..26 : UpperLetters[i] = ch]
    ELSE ch

LowerStr(v) == [i \in 1..Len(v) |-> LowerCh(v[i])]

\* the lower-case letters
Letters == {"a", "b", "c", "d", "e", "f", "g", "h", "i", "j", "k", "l", "m", "n", "o", "p",
            "q", "r", "s", "t", "u", "v", "w", "x", "y", "z"}

\* ch.isalnum() on a lower-cased letter
IsAlnum(ch) == ch \in Letters \cup {DigitCh[i] : i \in 1..10}

\* the loop of _slugify: keep alphanumerics, map " ", "-", "_" to "-", drop the rest
SlugChars(v) ==
    LET mapped == [i \in 1..Len(v) |->
                     LET ch == LowerCh(v[i])
                     IN  IF IsAlnum(ch) THEN ch
                         ELSE IF ch \in {" ", "-", "_"} THEN "-"
                         ELSE ""]
    IN  SelectSeq(mapped, LAMBDA ch : ch # "")

\* s.strip(ch)
StripCh(s, ch) ==
    LET keep == {i \in 1..Len(s) : s[i] # ch}
    IN  IF keep = {} THEN <<>>
        ELSE SubSeq(s, CHOOSE i \in keep : \A j \in keep : i <= j,
                       CHOOSE i \in keep : \A j \in keep : i >= j)

\* s.strip("-")
StripDash(s) == StripCh(s, "-")

slugify(value) ==
    LET slug == StripDash(SlugChars(value))
    IN  IF slug # <<>> THEN slug ELSE LowerStr(value)

\* f"{base}-{suffix}"; suffix 1 is the bare base (the candidate before the loop)
SlugCandidate(base, suffix) ==
    IF suffix = 1 THEN base ELSE base \o <<"-">> \o Dec(suffix)

\* the while loop of _unique_slug
RECURSIVE SlugLoopFrom(_, _, _)
SlugLoopFrom(base, slugs, suffix) ==
    LET candidate == SlugCandidate(base, suffix)
    IN  IF candidate # <<>> /\ candidate \in slugs
        THEN SlugLoopFrom(base, slugs, suffix + 1)
        ELSE candidate

\* FavoritesStore._unique_slug(slug, existing, exclude_id=...)
unique_slug(slug, existing, exclude_id) ==
    LET base == slugify(slug)
        existing_slugs == {existing[i].slug : i \in
                            {j \in 1..Len(existing) :
                                existing[j].slug # <<>> /\ existing[j].id # exclude_id}}
    IN  SlugLoopFrom(base, existing_slugs, 1)

\* f"fav_{uuid.uuid4().hex[:12]}": the n-th value drawn, distinct from all others
NoId == "none"
GenIds == <<"fav_1", "fav_2", "fav_3", "fav_4", "fav_5", "fav_6">>
NewUuid(n) == GenIds[n + 1]

CallerIds == {"x"}
SlugInputs == {<<>>, <<"a">>, <<"A", "!">>, Rep("a", SlugMax)}
LabelInputs == {<<>>, <<"b">>, Rep("a", SlugMax + 1)}
\* (engine, voiceId) of a payload: both given, or one of them missing
RequiredInputs == {<<"xtts", "v1">>, <<"", "v1">>, <<"xtts", "">>}

ProfileIds == {profiles[i].id : i \in 1..Len(profiles)}

\* index of the first profile with this id, 0 when there is none
FirstWithId(ps, pid) ==
    IF \E i \in 1..Len(ps) : ps[i].id = pid
    THEN CHOOSE i \in 1..Len(ps) : ps[i].id = pid /\ \A j \in 1..(i - 1) : ps[j].id # pid
    ELSE 0

\* the slug create() stores
CreateSlug(payload, ps) ==
    unique_slug(IF payload.slug # <<>> THEN payload.slug
                ELSE Take(slugify(payload.label), SlugMax), ps, NoId)

\* FavoritesStore.create(payload)
Create ==
    \E pid \in CallerIds \cup {NoId}, slug \in SlugInputs, label \in LabelInputs,
       req \in RequiredInputs :
        LET payload == [id |-> pid, slug |-> slug, label |-> label]
        IN  IF label = <<>> \/ req[1] = "" \/ req[2] = ""
            THEN /\ favOp' = [op |-> "create", ok |-> FALSE]
                 /\ UNCHANGED <<profiles, uuidCtr>>
            ELSE /\ Len(profiles) < MaxProfiles
                 /\ pid = NoId => uuidCtr < MaxUuid
                 /\ LET id == IF pid # NoId THEN pid ELSE NewUuid(uuidCtr)
                        record == [id |-> id, slug |-> CreateSlug(payload, profiles)]
                    IN  profiles' = Append(profiles, record)
                 /\ uuidCtr' = IF pid = NoId THEN uuidCtr + 1 ELSE uuidCtr
                 /\ favOp' = [op |-> "create", ok |-> TRUE]

\* the slug update() stores for a non-empty patch["slug"]
UpdateSlug(slug, ps, found_id) == Take(unique_slug(slug, ps, found_id), SlugMax)

\* FavoritesStore.update(profile_id, patch); only the slug of the patch changes
\* what the model keeps of a profile
Update ==
    \E profile_id \in CallerIds \cup {GenIds[i] : i \in 1..MaxUuid}, slug \in SlugInputs :
        LET k == FirstWithId(profiles, profile_id)
        IN  IF k = 0
            THEN /\ favOp' = [op |-> "update", ok |-> FALSE]
                 /\ UNCHANGED <<profiles, uuidCtr>>
            ELSE /\ profiles' =
                        IF slug # <<>>
                        THEN [profiles EXCEPT ![k].slug =
                                UpdateSlug(slug, profiles, profiles[k].id)]
                        ELSE profiles
                 /\ favOp' = [op |-> "update", ok |-> TRUE]
                 /\ UNCHANGED uuidCtr

\* FavoritesStore.delete(profile_id)
Delete ==
    \E profile_id \in CallerIds \cup {GenIds[i] : i \in 1..MaxUuid} :
        LET next_profiles == SelectSeq(profiles, LAMBDA p : p.id # profile_id)
        IN  /\ profiles' = next_profiles
            /\ favOp' = [op |-> "delete", ok |-> Len(next_profiles) # Len(profiles)]
            /\ UNCHANGED uuidCtr

\* the while loop of import_: no slugging, raw comparison
RECURSIVE ImportSlugLoop(_, _, _)
ImportSlugLoop(base, slugs, suffix) ==
    LET slug == SlugCandidate(base, suffix)
    IN  IF slug \in slugs THEN ImportSlugLoop(base, slugs, suffix + 1) ELSE slug

\* the body of import_'s loop over incoming, carried as [profiles, ctr, count]
RECURSIVE ImportLoop(_, _)
ImportLoop(incoming, acc) ==
    IF incoming = <<>> THEN acc
    ELSE LET p == Head(incoming)
             existing_ids == {acc.profiles[i].id : i \in 1..Len(acc.profiles)}
             existing_slugs == {acc.profiles[i].slug : i \in 1..Len(acc.profiles)}
             skip == p.label = <<>> \/ p.req[1] = "" \/ p.req[2] = ""
             fresh == p.id = NoId \/ p.id \in existing_ids
             id == IF fresh THEN NewUuid(acc.ctr) ELSE p.id
             base == Take(IF p.slug # <<>> THEN p.slug ELSE slugify(p.label), SlugMax)
             slug == ImportSlugLoop(base, existing_slugs, 1)
         IN  IF skip THEN ImportLoop(Tail(incoming), acc)
             ELSE ImportLoop(Tail(incoming),
                    [profiles |-> Append(acc.profiles, [id |-> id, slug |-> slug]),
                     ctr |-> IF fresh THEN acc.ctr + 1 ELSE acc.ctr,
                     count |-> acc.count + 1])

IncomingProfiles ==
    [id : CallerIds \cup {NoId}, slug : SlugInputs, label : LabelInputs,
     req : RequiredInputs]

\* FavoritesStore.import_(payload, mode=...)
Import ==
    \E n \in 1..MaxImport, mode \in {"merge", "replace"} :
      \E incoming \in [1..n -> IncomingProfiles] :
        LET start == IF mode = "replace" THEN <<>> ELSE profiles
            res == ImportLoop(incoming, [profiles |-> start, ctr |-> uuidCtr, count |-> 0])
        IN  /\ Len(res.profiles) <= MaxProfiles
            /\ res.ctr <= MaxUuid
            /\ profiles' = res.profiles
            /\ uuidCtr' = res.ctr
            /\ favOp' = [op |-> "import", ok |-> res.count > 0]

InitFav ==
    /\ profiles = <<>>
    /\ uuidCtr = 0
    /\ favOp = [op |-> "init", ok |-> TRUE]


----------------------------------------------------------------------------
(* app.py: audio primitives.  Amplitudes are fixed-point hundredths (100 is *)
(* full scale 1.0), times are milliseconds, sample indices are 0-based as   *)
(* in the code (index k of an array is element k + 1 of the sequence).      *)

\* samples per second of the model's canonical WAV (the code uses 24000)
SR == 4

\* peak2 > 1.0, in hundredths
FullScale == 100
\* _soft_limit(ceiling=0.98), in hundredths
Ceiling == 98

\* bounds of the splice inputs
MaxSrcLen == 10
MaxRepLen == 2

Abs(x) == IF x < 0 THEN 0 - x ELSE x

\* a / b rounded to the nearest integer, b > 0
RoundDiv(a, b) == IF a >= 0 THEN (2 * a + b) \div (2 * b)
                  ELSE 0 - ((2 * (0 - a) + b) \div (2 * b))

\* int(x) of a non-negative or negative quotient a / b, b > 0: truncation toward zero
TruncDiv(a, b) == IF a >= 0 THEN a \div b ELSE 0 - ((0 - a) \div b)

RECURSIVE SumSq(_)
SumSq(x) == IF x = <<>> THEN 0 ELSE Head(x) * Head(x) + SumSq(Tail(x))

Peak(x) == IF x = <<>> THEN 0
           ELSE CHOOSE m \in {Abs(x[i]) : i \in 1..Len(x)} :
                    \A i \in 1..Len(x) : Abs(x[i]) <= m

\* _rms: sqrt(mean(x^2 + 1e-9)); the epsilon keeps it positive, here at least 1
\* integer square root, found tens first and units second
Root(m) ==
    LET tens == CHOOSE t \in 0..(FullScale \div 2) :
                    (10 * t) * (10 * t) <= m /\ m < (10 * t + 10) * (10 * t + 10)
    IN  CHOOSE r \in (10 * tens)..(10 * tens + 9) : r * r <= m /\ m < (r + 1) * (r + 1)

rms(x) == Max(1, Root(SumSq(x) \div Len(x)))

\* x[a:b] of a Python sequence, 0-based, clipped to the array
Slice(x, a, b) == SubSeq(x, Max(a, 0) + 1, Min(b, Len(x)))

\* int(ms / 1000.0 * sr)
MsToSamples(ms) == TruncDiv(ms * SR, 1000)

\* the tail of _time_stretch_to_len: force the stretched signal to target_len
FitToLen(stretched, target_len) ==
    IF Len(stretched) > target_len THEN SubSeq(stretched, 1, target_len)
    ELSE stretched \o [i \in 1..(target_len - Len(stretched)) |-> 0]

\* _time_stretch_to_len(samples, sr, target_len); rawLen is the length of the
\* signal the external atempo/librosa stretch hands back, its content is taken
\* from the input by nearest index
time_stretch_to_len(samples, target_len, rawLen) ==
    IF Len(samples) <= 1 \/ target_len <= 1
    THEN [i \in 1..target_len |-> 0]
    ELSE FitToLen([i \in 1..rawLen |-> samples[((i - 1) * Len(samples)) \div rawLen + 1]],
                  target_len)

\* 98 * tanh(2 * x / 98) / tanh(2) for x = 0, 10, 20, ... hundredths
SoftTable == <<0, 20, 39, 55, 68, 78, 85, 91, 94, 97, 98, 99, 100, 101, 101, 101,
               101, 101, 102, 102, 102, 102, 102, 102, 102, 102, 102, 102, 102, 102, 102>>

\* one sample through the tanh saturation, by linear interpolation in SoftTable
SoftSample(x) ==
    LET m == Abs(x)
        k == m \div 10
        y == IF k + 2 > Len(SoftTable) THEN SoftTable[Len(SoftTable)]
             ELSE RoundDiv(SoftTable[k + 1] * (10 - (m % 10)) + SoftTable[k + 2] * (m % 10), 10)
    IN  IF x < 0 THEN 0 - y ELSE y

\* _soft_limit(x): the whole buffer goes through the saturation once its peak
\* exceeds the ceiling
soft_limit(x) ==
    IF x = <<>> \/ Peak(x) <= Ceiling THEN x
    ELSE [i \in 1..Len(x) |-> SoftSample(x[i])]

\* the final safety: out / peak2 * 0.98 when peak2 > 1.0
PeakSafety(x) ==
    IF Peak(x) > FullScale THEN [i \in 1..Len(x) |-> RoundDiv(x[i] * Ceiling, Peak(x))]
    ELSE x

\* fade = max(int(min(int(fade_ms / 1000 * sr), target_len // 4)), 1)
FadeLen(fade_ms, target_len) == Max(Min(MsToSamples(fade_ms), target_len \div 4), 1)

\* the loudness match: rep * (rms(ref) / rms(rep)) over the 0.5 s neighbourhood
LoudnessMatch(source, rep, i0, i1) ==
    LET pre == Slice(source, Max(0, i0 - SR \div 2), i0)
        post == Slice(source, i1, Min(Len(source), i1 + SR \div 2))
        ref == pre \o post
        r_ref == rms(ref)
        r_rep == rms(rep)
    IN  IF Len(ref) > 0
        THEN [i \in 1..Len(rep) |-> RoundDiv(rep[i] * r_ref, r_rep)]
        ELSE rep

\* array[k] with Python's negative indices; n is the array length
PyIndex(k, n) == IF k < 0 THEN k + n ELSE k
IndexOk(k, n) == 0 - n <= k /\ k < n

\* the source up to the region followed by the replacement, the rest dropped
SpliceConcat(source, rep, i0, i1, fade, duck) == Slice(source, 0, i0) \o rep

\* the buffer before limiting.  duck is the linear gain in hundredths, 0 for
\* None (a gain of 0 takes the same branch as None).
SpliceMix(source, rep, i0, i1, fade, duck) ==
    LET n == Len(source)
        target_len == Max(i1 - i0, 1)
        startIdx == {PyIndex(i0 + t, n) : t \in 0..(fade - 1)}
        endIdx == {PyIndex(i1 - fade + t, n) : t \in 0..(fade - 1)}
        hasMid == target_len > 2 * fade
        StartVal(t) ==
            IF duck > 0
            THEN RoundDiv(source[PyIndex(i0 + t, n) + 1]
                            * ((fade - (t + 1)) * 100 + (t + 1) * duck)
                          + rep[t + 1] * (t + 1) * 100, fade * 100)
            ELSE RoundDiv(source[PyIndex(i0 + t, n) + 1] * (fade - (t + 1))
                          + rep[t + 1] * (t + 1), fade)
        MidVal(k) ==
            IF duck > 0
            THEN rep[k - i0 + 1] + RoundDiv(source[k + 1] * duck, 100)
            ELSE rep[k - i0 + 1]
        EndVal(t) ==
            IF duck > 0
            THEN RoundDiv(rep[target_len - fade + t + 1] * (fade - (t + 1)) * 100
                          + source[PyIndex(i1 - fade + t, n) + 1]
                              * (duck * (fade - (t + 1)) + (t + 1) * 100), fade * 100)
            ELSE RoundDiv(rep[target_len - fade + t + 1] * (fade - (t + 1))
                          + source[PyIndex(i1 - fade + t, n) + 1] * (t + 1), fade)
    IN  [j \in 1..n |->
            LET k == j - 1
            IN  IF k \in endIdx
                THEN EndVal(CHOOSE t \in 0..(fade - 1) : PyIndex(i1 - fade + t, n) = k)
                ELSE IF hasMid /\ i0 + fade <= k /\ k < i1 - fade THEN MidVal(k)
                ELSE IF k \in startIdx
                THEN StartVal(CHOOSE t \in 0..(fade - 1) : PyIndex(i0 + t, n) = k)
                ELSE source[j]]

\* whether some index the loops touch is outside the array (IndexError)
SpliceIndexError(n, i0, i1, fade) ==
    \E t \in 0..(fade - 1) : ~IndexOk(i0 + t, n) \/ ~IndexOk(i1 - fade + t, n)

\* _apply_replace_with_crossfade(source, rep, sr, i0, i1, fade_ms, duck_gain)
apply_replace_with_crossfade(source, rep, i0, i1, fade_ms, duck, rawLen) ==
    LET target_len == Max(i1 - i0, 1)
        rep1 == IF Len(rep) # target_len THEN time_stretch_to_len(rep, target_len, rawLen)
                ELSE rep
        rep2 == LoudnessMatch(source, rep1, i0, i1)
        fade == FadeLen(fade_ms, target_len)
    IN  IF SpliceIndexError(Len(source), i0, i1, fade)
        THEN [err |-> TRUE, out |-> <<>>]
        ELSE [err |-> FALSE,
              out |-> PeakSafety(soft_limit(SpliceMix(source, rep2, i0, i1, fade, duck)))]

SrcVals == {0, 40, 100}
RepVals == {20, 300}
FadeInputs == {0, 1000}
DuckInputs == {0, 50}

\* a source of n samples: background level b with one sample of level v at index p
SourceShape(n, b, v, p) == [i \in 1..n |-> IF i = p THEN v ELSE b]

SpliceSources ==
    {SourceShape(MaxSrcLen, b, v, p) : b \in SrcVals, v \in SrcVals, p \in {1, MaxSrcLen}}

SpliceReps == UNION {[1..n -> RepVals] : n \in 1..MaxRepLen}

\* regions [i0, i1) inside the source: one sample, up to the last but one, to the end
SpliceRegions ==
    {r \in (0..2) \X (1..MaxSrcLen) :
        r[1] < r[2] /\ r[2] \in {r[1] + 1, MaxSrcLen - 1, MaxSrcLen}}

SpliceInputs ==
    {x \in [source : SpliceSources, rep : SpliceReps, region : SpliceRegions,
            fade_ms : FadeInputs, duck : DuckInputs, dLen : {0, 1}] :
        Len(x.rep) = x.region[2] - x.region[1] => x.dLen = 0}

InitSplice ==
    /\ spIn \in SpliceInputs
    /\ spOut = [done |-> FALSE, err |-> FALSE, out |-> <<>>]

\* one call of the function on the drawn arguments
Splice ==
    /\ ~spOut.done
    /\ LET r == apply_replace_with_crossfade(spIn.source, spIn.rep, spIn.region[1],
                    spIn.region[2], spIn.fade_ms, spIn.duck,
                    spIn.region[2] - spIn.region[1] + spIn.dLen)
       IN  spOut' = [done |-> TRUE, err |-> r.err, out |-> r.out]
    /\ UNCHANGED spIn

IdleSplice ==
    /\ spIn = [source |-> <<>>, rep |-> <<>>, region |-> <<0, 0>>,
               fade_ms |-> 0, duck |-> 0, dLen |-> 0]
    /\ spOut = [done |-> FALSE, err |-> FALSE, out |-> <<>>]


----------------------------------------------------------------------------
(* app.py: file paths and XTTS voice resolution.  A path string is a text   *)
(* (a sequence of one-letter strings); a resolved path is the sequence of   *)
(* its components from the root.                                            *)

\* pathlib's parse of a path string: the components between "/", without the
\* empty ones and without "."
RECURSIVE PathParts(_)
PathParts(s) ==
    IF s = <<>> THEN <<>>
    ELSE LET cut == IF \E i \in 1..Len(s) : s[i] = "/"
                    THEN CHOOSE i \in 1..Len(s) :
                            s[i] = "/" /\ \A j \in 1..(i - 1) : s[j] # "/"
                    ELSE Len(s) + 1
             head == SubSeq(s, 1, cut - 1)
             rest == PathParts(SubSeq(s, cut + 1, Len(s)))
         IN  IF head = <<>> \/ head = <<".">> THEN rest ELSE <<head>> \o rest

\* Path(s).is_absolute()
IsAbsolute(s) == s # <<>> /\ s[1] = "/"

\* ".." components taken out against the components before them
RECURSIVE Normalise(_, _)
Normalise(parts, acc) ==
    IF parts = <<>> THEN acc
    ELSE IF Head(parts) = <<".", ".">>
    THEN Normalise(Tail(parts), IF acc = <<>> THEN acc ELSE SubSeq(acc, 1, Len(acc) - 1))
    ELSE Normalise(Tail(parts), Append(acc, Head(parts)))

\* working directory of the server process
Cwd == << <<"s">> >>

\* Path(s).resolve(): absolute, normalised
PathResolve(s) == Normalise((IF IsAbsolute(s) THEN <<>> ELSE Cwd) \o PathParts(s), <<>>)

\* Path(s).name
PathName(s) == LET parts == PathParts(s)
               IN  IF parts = <<>> THEN <<>> ELSE parts[Len(parts)]

\* position of the last "." of a name, 0 when there is none
LastDot(name) ==
    IF \E i \in 1..Len(name) : name[i] = "."
    THEN CHOOSE i \in 1..Len(name) :
            name[i] = "." /\ \A j \in (i + 1)..Len(name) : name[j] # "."
    ELSE 0

\* Path(s).suffix: from the last dot, unless the dot starts or ends the name
PathSuffix(s) ==
    LET name == PathName(s)
        i == LastDot(name)
    IN  IF 1 < i /\ i < Len(name) THEN SubSeq(name, i, Len(name)) ELSE <<>>

\* Path(s).stem
PathStem(s) ==
    LET name == PathName(s)
        i == LastDot(name)
    IN  IF 1 < i /\ i < Len(name) THEN SubSeq(name, 1, i - 1) ELSE name

\* real.relative_to(root) succeeds
RelativeTo(real, root) == Len(real) >= Len(root) /\ SubSeq(real, 1, Len(root)) = root

XTTS_VOICE_DIR == << <<"v">> >>
OUTPUT_DIR == << <<"o">> >>
XTTS_SUPPORTED_EXTENSIONS ==
    {<<".", "w", "a", "v">>, <<".", "m", "p", "3">>, <<".", "f", "l", "a", "c">>,
     <<".", "o", "g", "g">>}

\* _media_job_dir(job_id): OUTPUT_DIR / "media_edits" / job_id
media_job_dir(job_id) == OUTPUT_DIR \o << <<"m">>, job_id >>

\* sorted(voice_dir.iterdir()): the names in the voice directory, in order
VoiceDirListing ==
    << <<"A", ".", "w", "a", "v">>, <<"a", ".", "w", "a", "v">>, <<"b", ".", "x">> >>

\* files of the host outside the output directory: the voice clips, a file
\* elsewhere on the host, and a file in the working directory
HostFiles ==
    {XTTS_VOICE_DIR \o <<VoiceDirListing[i]>> : i \in 1..Len(VoiceDirListing)}
        \cup {<< <<"e">>, <<"p">> >>, Cwd \o << <<"q">> >>}

\* the loop of _slugify_voice_id
VoiceSlugChars(v) ==
    LET mapped == [i \in 1..Len(v) |->
                     LET ch == LowerCh(v[i])
                     IN  IF IsAlnum(ch) THEN ch
                         ELSE IF ch \in {" ", "-", "_"} THEN "_"
                         ELSE ""]
    IN  SelectSeq(mapped, LAMBDA ch : ch # "")

slugify_voice_id(name) ==
    LET slug == StripCh(VoiceSlugChars(name), "_")
    IN  IF slug # <<>> THEN slug ELSE LowerStr(name)

\* the while loop of get_xtts_voice_map: f"{base_id}_{counter}"
RECURSIVE VoiceIdLoop(_, _, _)
VoiceIdLoop(base_id, ids, counter) ==
    LET unique_id == IF counter = 1 THEN base_id ELSE base_id \o <<"_">> \o Dec(counter)
    IN  IF unique_id \in ids THEN VoiceIdLoop(base_id, ids, counter + 1) ELSE unique_id

\* the for loop of get_xtts_voice_map, the mapping carried as a sequence of
\* [id, path]
RECURSIVE VoiceMapFrom(_, _)
VoiceMapFrom(listing, mapping) ==
    IF listing = <<>> THEN mapping
    ELSE LET name == Head(listing)
             ids == {mapping[i].id : i \in 1..Len(mapping)}
             unique_id == VoiceIdLoop(slugify_voice_id(PathStem(name)), ids, 1)
         IN  IF LowerStr(PathSuffix(name)) \notin XTTS_SUPPORTED_EXTENSIONS
             THEN VoiceMapFrom(Tail(listing), mapping)
             ELSE VoiceMapFrom(Tail(listing),
                    Append(mapping, [id |-> unique_id, path |-> XTTS_VOICE_DIR \o <<name>>]))

get_xtts_voice_map == VoiceMapFrom(VoiceDirListing, <<>>)

\* the entries of the mapping
VoiceMapItems(m) == {m[i] : i \in 1..Len(m)}

\* voice_map[key]
VoiceMapGet(key) == (CHOOSE e \in VoiceMapItems(get_xtts_voice_map) : e.id = key).path

VoiceMapHas(key) == \E e \in VoiceMapItems(get_xtts_voice_map) : e.id = key

\* the lookups of _resolve_xtts_voice_path: the voice id in the mapping, then
\* its slug, then the identifier as a path of an existing file
resolve_xtts_voice_lookup(identifier, key, slug, candidate, files) ==
    IF VoiceMapHas(key) THEN [status |-> 200, voice_id |-> key, path |-> VoiceMapGet(key)]
    ELSE IF VoiceMapHas(slug)
    THEN [status |-> 200, voice_id |-> slug, path |-> VoiceMapGet(slug)]
    ELSE IF candidate \in files
    THEN [status |-> 200, voice_id |-> slugify_voice_id(PathStem(identifier)),
          path |-> candidate]
    ELSE [status |-> 400, voice_id |-> <<>>, path |-> <<>>]

\* _resolve_xtts_voice_path(identifier); files is the set of existing files.
\* The result carries the path handed on as the speaker reference.
resolve_xtts_voice_path(identifier, files) ==
    resolve_xtts_voice_lookup(identifier, LowerStr(StripCh(identifier, " ")),
                              slugify_voice_id(identifier), PathResolve(identifier), files)
----------------------------------------------------------------------------
(* app.py: the engine registry, /synthesise and /voices/preview.  What an   *)
(* external engine run does (exit status, whether it left a file) is drawn  *)
(* from the outcomes that run can have.                                     *)

\* bound on the number of synthesis requests
MaxSynth == 2

DEFAULT_TTS_ENGINE == "kokoro"
ENGINE_REGISTRY == {"kokoro", "xtts", "openvoice", "chattts"}

\* the keys of get_openvoice_voice_map()
OpenVoiceIds == {<<"o">>}

NoFile == [n |-> 0, tag |-> "none"]
NoRun == [exit |-> "none", wrote |-> FALSE, moveOk |-> TRUE]

\* f"{int(time.time())}-{uuid.uuid4().hex[:10]}-<engine>.<ext>": fresh on every call
NewFilename(n, tag) == [n |-> n + 1, tag |-> tag]

\* outcomes of a subprocess.run of an engine CLI: the interpreter is missing,
\* the run times out, exits non-zero or exits zero; wrote tells whether the
\* run left its output file behind
CliRuns ==
    {r \in [exit : {"notfound", "timeout", "nonzero", "zero"}, wrote : BOOLEAN,
            moveOk : {TRUE}] : r.exit = "notfound" => ~r.wrote}

\* outcomes of the two HTTP exchanges with an XTTS server and of write_bytes
ServerRuns ==
    {[exit |-> e, wrote |-> e = "ok", moveOk |-> TRUE] :
        e \in {"request_failed", "http_error", "bad_json", "not_success",
               "no_audio_url", "download_failed", "write_failed", "ok"}}

\* outcomes of tts.create and sf.write in synthesise_audio_clip
KokoroRuns ==
    {[exit |-> e, wrote |-> e = "ok", moveOk |-> TRUE] :
        e \in {"create_raised", "write_raised", "ok"}}

\* outcomes of the ChatTTS CLI and of shutil.move
ChatRuns == CliRuns \cup {[exit |-> "zero", wrote |-> w, moveOk |-> FALSE] : w \in BOOLEAN}

\* validate_synthesis_payload(payload, require_voice=...)
validate_synthesis_payload(text, voice, speedOk, require_voice) ==
    IF StripCh(text, " ") = <<>> THEN 400
    ELSE IF require_voice /\ voice = <<>> THEN 400
    ELSE IF ~speedOk THEN 400
    ELSE 200

\* the checks of _xtts_prepare_payload on the validated payload and the
\* resolved voice: [status, voice_id, voice_path]
xtts_prepare_checks(base, resolved, format) ==
    LET bad == [status |-> 400, voice_id |-> <<>>, voice_path |-> <<>>]
    IN  IF base # 200 THEN bad
        ELSE IF resolved.status # 200 THEN bad
        ELSE IF <<".">> \o format \notin XTTS_SUPPORTED_EXTENSIONS THEN bad
        ELSE [status |-> 200, voice_id |-> resolved.voice_id, voice_path |-> resolved.path]

\* _xtts_prepare_payload(payload): [status, voice_id, voice_path]
xtts_prepare_payload(text, voice, speedOk, format, files) ==
    xtts_prepare_checks(validate_synthesis_payload(text, voice, speedOk, TRUE),
                        resolve_xtts_voice_path(voice, files), format)

\* _openvoice_prepare_payload(payload): the reference comes from the voice map only
openvoice_prepare_payload(text, voice, speedOk) ==
    LET base == validate_synthesis_payload(text, voice, speedOk, TRUE)
    IN  IF base # 200 THEN 400
        ELSE IF voice \notin OpenVoiceIds THEN 400
        ELSE 200

\* _xtts_synthesise_via_server(data): [status, filename, add]
xtts_synthesise_via_server(filename, run) ==
    LET fail(s) == [status |-> s, filename |-> NoFile, add |-> {}]
    IN  IF run.exit = "request_failed" THEN fail(503)
        ELSE IF run.exit = "http_error" THEN fail(502)
        ELSE IF run.exit \in {"bad_json", "not_success", "no_audio_url",
                              "download_failed", "write_failed"} THEN fail(500)
        ELSE [status |-> 200, filename |-> filename, add |-> {filename}]

\* the CLI branch without its test of output_path.exists()
cli_synthesise_unchecked(filename, run, dir) ==
    LET add == IF run.wrote THEN {filename} ELSE {}
        fail(s) == [status |-> s, filename |-> NoFile, add |-> add]
    IN  IF run.exit = "notfound" THEN fail(500)
        ELSE IF run.exit = "timeout" THEN fail(504)
        ELSE IF run.exit # "zero" THEN fail(500)
        ELSE [status |-> 200, filename |-> filename, add |-> add]

\* the local CLI branch of _xtts_synthesise, and _openvoice_synthesise:
\* [status, filename, add]; dir is the output directory before the run
cli_synthesise(filename, run, dir) ==
    LET add == IF run.wrote THEN {filename} ELSE {}
        fail(s) == [status |-> s, filename |-> NoFile, add |-> add]
    IN  IF run.exit = "notfound" THEN fail(500)
        ELSE IF run.exit = "timeout" THEN fail(504)
        ELSE IF run.exit # "zero" THEN fail(500)
        ELSE IF filename \notin dir \cup add THEN fail(500)
        ELSE [status |-> 200, filename |-> filename, add |-> add]

\* _xtts_synthesise(data)
xtts_synthesise(filename, run, dir, available, server) ==
    IF ~available THEN [status |-> 503, filename |-> NoFile, add |-> {}]
    ELSE IF server THEN xtts_synthesise_via_server(filename, run)
    ELSE cli_synthesise(filename, run, dir)

\* _openvoice_synthesise(data)
openvoice_synthesise(filename, run, dir, available) ==
    IF ~available THEN [status |-> 503, filename |-> NoFile, add |-> {}]
    ELSE cli_synthesise(filename, run, dir)

\* synthesise_audio_clip(...): the result is built after sf.write returned
synthesise_audio_clip(filename, run) ==
    IF run.exit # "ok" THEN [status |-> 500, filename |-> NoFile, add |-> {}]
    ELSE [status |-> 200, filename |-> filename, add |-> {filename}]

\* the file with the largest st_mtime
Newest(fs) == CHOOSE f \in fs : \A g \in fs : g.mtime <= f.mtime

\* _chattts_synthesise(data): [status, filename, add, chat]; chat is the set of
\* output_audio_*.mp3 files of CHATTT_ROOT after the call
chattts_synthesise(filename, run, chat, available, now) ==
    LET before_files == {f.name : f \in chat}
        after == IF run.wrote THEN chat \cup {[name |-> filename.n, mtime |-> now]} ELSE chat
        generated_files == {f \in after : f.name \notin before_files}
        candidates == IF generated_files # {} THEN generated_files ELSE after
        fail(s) == [status |-> s, filename |-> NoFile, add |-> {}, chat |-> after]
    IN  IF ~available THEN [status |-> 503, filename |-> NoFile, add |-> {}, chat |-> chat]
        ELSE IF run.exit = "notfound" THEN fail(500)
        ELSE IF run.exit = "timeout" THEN fail(504)
        ELSE IF run.exit # "zero" THEN fail(500)
        ELSE IF candidates = {} THEN fail(500)
        ELSE IF ~run.moveOk THEN fail(500)
        ELSE [status |-> 200, filename |-> filename, add |-> {filename},
              chat |-> after \ {IF generated_files # {} THEN CHOOSE f \in generated_files : TRUE
                                ELSE Newest(after)}]

EngineInputs == {"", "kokoro", "xtts", "openvoice", "chattts", "bogus"}
TextInputs == {<<" ">>, <<"e">>}
\* a known id, the same in capitals, an unknown id, the OpenVoice id, a file
\* elsewhere on the host, a name in the working directory, a voice clip by path
VoiceInputs ==
    {<<>>, <<"a">>, <<"A">>, <<"x">>, <<"o">>, <<"/", "e", "/", "p">>, <<"q">>,
     <<"/", "v", "/", "a", ".", "w", "a", "v">>}
FormatInputs == {<<"w", "a", "v">>, <<"e", "x", "e">>}

\* request payloads: any voice with the other fields in order, or one field
\* out of order
SynthPayloads ==
    {p \in [text : TextInputs, voice : VoiceInputs, format : FormatInputs, speedOk : BOOLEAN] :
        \/ p.text = <<"e">> /\ p.format = <<"w", "a", "v">> /\ p.speedOk
        \/ /\ p.voice = <<"a">>
           /\ Cardinality({1 : x \in {p.text} \ {<<"e">>}} \cup
                           {2 : x \in {p.format} \ {<<"w", "a", "v">>}} \cup
                           {3 : x \in {p.speedOk} \ {TRUE}}) = 1}

\* the outcomes the run of an engine can have
RunsOf(key, server) ==
    IF key = "kokoro" THEN KokoroRuns
    ELSE IF key = "chattts" THEN ChatRuns
    ELSE IF key = "xtts" /\ server THEN ServerRuns
    ELSE CliRuns

\* what the model keeps of a request: the route, the engine, the response
\* status, the filename of the result, the speaker reference handed to the
\* engine (empty when no cloning run was started), the outcome of the run
\* ("none" when no run was started; wrote: it left an output file; moved:
\* shutil.move would succeed), and whether CHATTT_ROOT held an output file
\* before the call
SynthRecord(route, engine, status, filename, ref, run, stale) ==
    [route |-> route, engine |-> engine, status |-> status, filename |-> filename,
     ref |-> ref, exit |-> run.exit, wrote |-> run.wrote, moved |-> run.moveOk,
     stale |-> stale]

\* what the handler keeps of the prepared payload
PrepareResult(p) == [status |-> p.status, voice_path |-> p.voice_path]

\* the prepare hook of the engine: [status, voice_path]
Prepare(key, text, voice, speedOk, format) ==
    IF key = "xtts"
    THEN PrepareResult(xtts_prepare_payload(text, voice, speedOk, format, HostFiles))
    ELSE IF key = "openvoice"
    THEN [status |-> openvoice_prepare_payload(text, voice, speedOk), voice_path |-> <<>>]
    ELSE [status |-> validate_synthesis_payload(text, voice, speedOk, key # "chattts"),
          voice_path |-> <<>>]

\* Prepare over the request payloads, computed once
PrepareTable ==
    [key \in ENGINE_REGISTRY |->
        [p \in SynthPayloads |-> Prepare(key, p.text, p.voice, p.speedOk, p.format)]]

\* _get_or_create_xtts_preview's call of _xtts_prepare_payload, over the voices
PreviewPrepareTable ==
    [voice \in VoiceInputs |->
        xtts_prepare_payload(<<"e">>, StripCh(voice, " "), TRUE, <<"w", "a", "v">>, HostFiles)]

\* the synthesise hook of the engine: [status, filename, add, chat]
Handler(key, filename, run, available) ==
    IF key = "chattts" THEN chattts_synthesise(filename, run, chatRoot, available, synCtr + 1)
    ELSE LET r == IF key = "kokoro" THEN synthesise_audio_clip(filename, run)
                  ELSE IF key = "xtts"
                  THEN xtts_synthesise(filename, run, outDir, available, xttsServer)
                  ELSE openvoice_synthesise(filename, run, outDir, available)
         IN  [status |-> r.status, filename |-> r.filename, add |-> r.add, chat |-> chatRoot]

\* engine_is_available(engine); cli tells whether the engine's files are in place
EngineAvailable(key, cli) == IF key = "xtts" THEN xttsServer \/ cli ELSE cli

\* synthesise_endpoint(), for a payload without a favorites profile
Synthesise ==
    /\ synCtr < MaxSynth
    /\ \E engine_id \in EngineInputs, p \in SynthPayloads, cli \in BOOLEAN :
        \E key \in {IF engine_id = "" THEN DEFAULT_TTS_ENGINE ELSE engine_id} :
        \E available \in {EngineAvailable(key, cli)} :
        \E prep \in {IF key \in ENGINE_REGISTRY THEN PrepareTable[key][p]
                     ELSE [status |-> 400, voice_path |-> <<>>]} :
        \E early \in {IF key \notin ENGINE_REGISTRY THEN 400
                      ELSE IF ~available THEN 503
                      ELSE prep.status} :
            IF early # 200
            THEN /\ synLast' = SynthRecord("synthesise", key, early, NoFile, <<>>, NoRun, FALSE)
                 /\ UNCHANGED <<outDir, chatRoot, synCtr, xttsServer, previews>>
            ELSE \E run \in RunsOf(key, xttsServer) :
                 \E res \in {Handler(key, NewFilename(synCtr, key), run, available)} :
                    /\ outDir' = outDir \cup res.add
                    /\ chatRoot' = res.chat
                    /\ synCtr' = synCtr + 1
                    /\ synLast' = SynthRecord("synthesise", key, res.status, res.filename,
                                              prep.voice_path, run, chatRoot # {})
                    /\ UNCHANGED <<xttsServer, previews>>

\* create_voice_preview_endpoint() with _get_or_create_xtts_preview: the
\* preview is served from the cache, or synthesised, copied into the preview
\* directory and the synthesised file unlinked
VoicePreview ==
    /\ synCtr < MaxSynth
    /\ \E engine_id \in {"xtts", "bogus"}, voice \in VoiceInputs, force \in BOOLEAN,
          cli \in BOOLEAN :
        \E voice_id \in {StripCh(voice, " ")} :
        \E available \in {EngineAvailable(engine_id, cli)} :
        \E cached \in {(voice_id \in previews) /\ ~force} :
        \E prep \in {PreviewPrepareTable[voice]} :
        \E early \in {IF voice_id = <<>> THEN 400
                      ELSE IF engine_id \notin ENGINE_REGISTRY THEN 400
                      ELSE IF ~available THEN 503
                      ELSE IF cached THEN 200
                      ELSE prep.status} :
            IF early # 200 \/ cached
            THEN /\ synLast' = SynthRecord("preview", engine_id, early, NoFile, <<>>, NoRun, FALSE)
                 /\ UNCHANGED <<outDir, chatRoot, synCtr, xttsServer, previews>>
            ELSE \E run \in RunsOf("xtts", xttsServer), copied \in BOOLEAN :
                 \E res \in {xtts_synthesise(NewFilename(synCtr, "xtts"), run, outDir,
                                             available, xttsServer)} :
                    /\ outDir' = IF res.status = 200 THEN outDir ELSE outDir \cup res.add
                    /\ previews' = IF res.status = 200 /\ copied
                                   THEN previews \cup {voice_id} ELSE previews
                    /\ synCtr' = synCtr + 1
                    /\ synLast' = SynthRecord("preview", "xtts",
                                    IF res.status # 200 THEN res.status
                                    ELSE IF copied THEN 200 ELSE 500,
                                    NoFile, prep.voice_path, run, FALSE)
                    /\ UNCHANGED <<chatRoot, xttsServer>>

InitSynth ==
    /\ outDir = {}
    /\ chatRoot = {}
    /\ synCtr = 0
    /\ xttsServer \in BOOLEAN
    /\ previews = {}
    /\ synLast = SynthRecord("init", "none", 200, NoFile, <<>>, NoRun, FALSE)

IdleSynth ==
    /\ outDir = {}
    /\ chatRoot = {}
    /\ synCtr = 0
    /\ xttsServer = FALSE
    /\ previews = {}
    /\ synLast = SynthRecord("init", "none", 200, NoFile, <<>>, NoRun, FALSE)

----------------------------------------------------------------------------
(* app.py: /media/transcribe with the YouTube ingest cache and the         *)
(* opportunistic cleanup.  Times are hours.                                 *)

MEDIA_TTL_DAYS == 7
MEDIA_CLEANUP_INTERVAL_HOURS == 12
\* {6,} in the pattern of _yt_id
YtIdMin == 6

\* bounds of the ingest model
MaxIngest == 2
MaxClock == 400

NoVid == <<>>
NoTime == 0 - 1

\* the alternatives v= | youtu\.be/ | shorts/
YtMarkers ==
    {<<"v", "=">>, <<"y", "o", "u", "t", "u", ".", "b", "e", "/">>,
     <<"s", "h", "o", "r", "t", "s", "/">>}

\* [A-Za-z0-9_-]
IsIdChar(ch) == IsAlnum(LowerCh(ch)) \/ ch \in {"_", "-"}

\* length of the longest run of id characters of u starting at position i
IdRun(u, i) ==
    CHOOSE n \in 0..(Len(u) + 1 - i) :
        /\ \A j \in i..(i + n - 1) : IsIdChar(u[j])
        /\ i + n > Len(u) \/ ~IsIdChar(u[i + n])

MarkerAt(u, i, m) == i + Len(m) - 1 <= Len(u) /\ SubSeq(u, i, i + Len(m) - 1) = m

\* the pattern matches at position i
YtMatchAt(u, i) ==
    \E m \in YtMarkers : MarkerAt(u, i, m) /\ IdRun(u, i + Len(m)) >= YtIdMin

\* _yt_id(u): group 1 of the leftmost match, NoVid for None
yt_id(u) ==
    IF \E i \in 1..Len(u) : YtMatchAt(u, i)
    THEN LET i == CHOOSE k \in 1..Len(u) :
                    YtMatchAt(u, k) /\ \A j \in 1..(k - 1) : ~YtMatchAt(u, j)
             m == CHOOSE mm \in YtMarkers : MarkerAt(u, i, mm)
         IN  SubSeq(u, i + Len(m), i + Len(m) + IdRun(u, i + Len(m)) - 1)
    ELSE NoVid

pref_order == <<".m4a", ".mp3", ".webm", ".opus", ".ogg">>

\* a download name that ignores the video id
temp_base_random(vid, n) == <<"y", "t", "-">> \o Dec(n)

\* temp_base.name: vid or f"yt-{uuid.uuid4().hex}", n standing for the uuid
temp_base(vid, n) == IF vid # NoVid THEN vid ELSE <<"y", "t", "-">> \o Dec(n)

\* cache_dir.glob(f"{name}.*"): the cache files of that base name
CacheGlob(cache, name) == {f \in cache : f.name = name}

\* the files the cleanup leaves: those with now - mtime <= ttl
Unexpired(files, now) == {f \in files : ~(now - f.mtime > MEDIA_TTL_DAYS * 24)}

\* whether _maybe_cleanup_media_artifacts passes its gate
CleanupDue(last, now) == last = NoTime \/ ~(now - last < MEDIA_CLEANUP_INTERVAL_HOURS)

\* the first extension of pref_order some candidate has, 0 when none has one
BestRank(cands) ==
    IF \E k \in 1..Len(pref_order) : \E c \in cands : c.ext = pref_order[k]
    THEN CHOOSE k \in 1..Len(pref_order) :
            /\ \E c \in cands : c.ext = pref_order[k]
            /\ \A j \in 1..(k - 1) : \A c \in cands : c.ext # pref_order[j]
    ELSE 0

\* the candidates the selection after a download can return: the one of the
\* best extension, else candidates[0] of a listing in no particular order
BestOf(cands) ==
    IF BestRank(cands) # 0 THEN {c \in cands : c.ext = pref_order[BestRank(cands)]}
    ELSE cands

\* max(candidates, key=st_size): a largest one
LargestOf(cands) == {c \in cands : \A d \in cands : d.size <= c.size}

UrlInputs ==
    {<<>>,
     <<"v", "=", "a", "b", "c", "d", "e", "f">>,
     <<"v", "=", "a", "b", "c", "d", "e">>,
     <<"x", "/", "a", "b", "c", "d", "e", "f">>,
     <<"s", "h", "o", "r", "t", "s", "/", "A", "-", "_", "1", "2", "3", "4">>}

\* what a yt-dlp run does: fails, or exits zero having written files of these
\* extensions
DownloadRuns ==
    {[ok |-> FALSE, exts |-> {}]}
        \cup {[ok |-> TRUE, exts |-> e] : e \in {{}, {".webm", ".m4a"}, {".mkv"}}}

\* size of the sidecar <id>.info.json, 0 when it could not be fetched or saved
MetaSizes == {0, 3}
AudioSize == 2

\* the steps after the input is chosen: ffmpeg extraction fails, STT is not
\* available and no stub is allowed, or both go through (with the STT result
\* or the stub transcript)
ProcessRuns == {"ok", "extract_failed", "stt_unavailable"}

IngestRecord(url, status, downloaded, completed, hit, reaped) ==
    [url |-> url, status |-> status, downloaded |-> downloaded, completed |-> completed,
     hit |-> hit, reaped |-> reaped]

NoRequest == IngestRecord(<<>>, 0, FALSE, FALSE, FALSE, FALSE)

\* status of the request once input_path is set
ProcessStatus(proc) ==
    IF proc = "extract_failed" THEN 500
    ELSE IF proc = "stt_unavailable" THEN 503
    ELSE 200

\* _yt_id over the URLs of the requests, computed once
YtIdTable == [url \in UrlInputs |-> yt_id(StripCh(url, " "))]

\* the requests: an upload, a multipart request without file, a JSON request
\* whose source is not 'youtube', or a YouTube request with a url
TranscribeInputs ==
    {[kind |-> k, url |-> <<>>] : k \in {"upload", "nofile", "notyoutube"}}
        \cup {[kind |-> "youtube", url |-> u] : u \in UrlInputs}

\* the same for an input taken from the cache directory: the metadata sidecar
\* is not media, its extraction fails
InputStatus(cache_path, proc) ==
    IF cache_path.ext = ".json" THEN 500 ELSE ProcessStatus(proc)

\* media_transcribe_endpoint(); dt is the time passed since the last request
Transcribe ==
    /\ ingCtr < MaxIngest
    /\ \E dt \in {0, MEDIA_TTL_DAYS * 24 + 1},
          req \in TranscribeInputs, tool \in BOOLEAN, proc \in ProcessRuns :
        LET kind == req.kind
            url == req.url
            now == ingClock + dt
            due == CleanupDue(lastCleanup, now)
            cache1 == IF due THEN Unexpired(ytCache, now) ELSE ytCache
            jobs1 == (IF due THEN Unexpired(ingJobs, now) ELSE ingJobs)
                        \cup {[id |-> ingCtr + 1, mtime |-> now]}
            reaped == cache1 # ytCache
            u == StripCh(url, " ")
            vid == YtIdTable[url]
            candidates == IF vid # NoVid THEN CacheGlob(cache1, vid) ELSE {}
            Finish(rec, cache) ==
                /\ ingPrev' = [url |-> ingLast.url, completed |-> ingLast.completed]
                /\ ingLast' = rec
                /\ ytCache' = cache
                /\ ingJobs' = jobs1
                /\ ingClock' = now
                /\ lastCleanup' = IF due THEN now ELSE lastCleanup
                /\ ingCtr' = ingCtr + 1
        IN  /\ now <= MaxClock
            /\ IF kind = "upload"
               THEN Finish(IngestRecord(<<>>, ProcessStatus(proc), FALSE, FALSE, FALSE, reaped),
                           cache1)
               ELSE IF kind \in {"nofile", "notyoutube"} \/ u = <<>>
               THEN Finish(IngestRecord(<<>>, 400, FALSE, FALSE, FALSE, reaped), cache1)
               ELSE IF candidates # {}
               THEN \E cache_path \in LargestOf(candidates) :
                        Finish(IngestRecord(u, InputStatus(cache_path, proc), FALSE, FALSE, TRUE,
                                            reaped), cache1)
               ELSE IF ~tool
               THEN Finish(IngestRecord(u, 503, FALSE, FALSE, FALSE, reaped), cache1)
               ELSE \E run \in DownloadRuns, metaSize \in MetaSizes :
                      LET base == temp_base(vid, ingCtr + 1)
                          written == {[name |-> base, ext |-> e, size |-> AudioSize,
                                       mtime |-> now] : e \in run.exts}
                          cache2 == cache1 \cup written
                          found == CacheGlob(cache2, base)
                          meta == IF vid # NoVid /\ metaSize > 0 /\ found # {}
                                  THEN {[name |-> vid, ext |-> ".json", size |-> metaSize,
                                         mtime |-> now]}
                                  ELSE {}
                      IN  IF ~run.ok \/ found = {}
                          THEN Finish(IngestRecord(u, 500, TRUE, FALSE, FALSE, reaped), cache2)
                          ELSE \E cache_path \in BestOf(found) :
                                  Finish(IngestRecord(u, InputStatus(cache_path, proc), TRUE, TRUE,
                                                      FALSE, reaped), cache2 \cup meta)

InitIngest ==
    /\ ytCache = {}
    /\ ingJobs = {}
    /\ ingClock = MEDIA_TTL_DAYS * 24 + 1
    /\ lastCleanup = NoTime
    /\ ingCtr = 0
    /\ ingPrev = [url |-> <<>>, completed |-> FALSE]
    /\ ingLast = NoRequest

IdleIngest == InitIngest

----------------------------------------------------------------------------
(* app.py: /media/align_region.  Times are quarter seconds.  A transcript   *)
(* word is [text, start, end, timed]; timed is FALSE for an entry without   *)
(* "start" and "end" keys.                                                  *)

\* margin_s when the request has no margin: 0.75 s
DefaultMargin == 3

\* bounds of the alignment model
MaxAlign == 2
JobDuration == 8

Word(text, s, e) == [text |-> text, start |-> s, end |-> e, timed |-> TRUE]
Untimed(text) == [text |-> text, start |-> 0, end |-> 0, timed |-> FALSE]

\* " ".join(texts)
RECURSIVE JoinSpace(_)
JoinSpace(texts) ==
    IF texts = <<>> THEN <<>>
    ELSE IF Len(texts) = 1 THEN texts[1]
    ELSE texts[1] \o <<" ">> \o JoinSpace(Tail(texts))

\* float(w["end"]) > region_start and float(w["start"]) < region_end
InWindow(w, region_start, region_end) == w.end > region_start /\ w.start < region_end

\* the text handed to the aligner: from the words when all of them are timed,
\* from the segments when that gives nothing
RegionText(words, segs, region_start, region_end) ==
    LET all_timed == words # <<>> /\ \A i \in 1..Len(words) : words[i].timed
        region_words == SelectSeq(words, LAMBDA w : InWindow(w, region_start, region_end))
        words_txt == [i \in 1..Len(region_words) |-> StripCh(region_words[i].text, " ")]
        from_words == IF all_timed THEN StripCh(JoinSpace(words_txt), " ") ELSE <<>>
        region_segs == SelectSeq(segs, LAMBDA s : InWindow(s, region_start, region_end))
        segs_txt == [i \in 1..Len(region_segs) |-> StripCh(region_segs[i].text, " ")]
    IN  IF from_words # <<>> THEN from_words ELSE StripCh(JoinSpace(segs_txt), " ")

\* new_words: the dict entries the aligner returned, shifted by region_start
NewWords(aligned, region_start) ==
    LET dicts == SelectSeq(aligned, LAMBDA w : w.dict)
    IN  [i \in 1..Len(dicts) |->
            Word(StripCh(dicts[i].text, " "), region_start + dicts[i].start,
                 region_start + dicts[i].end)]

\* a merge that keeps every timed word
KeptWordsAll(existing, region_start, region_end) ==
    LET timed == SelectSeq(existing, LAMBDA w : w.timed)
    IN  [i \in 1..Len(timed) |->
            Word(StripCh(timed[i].text, " "), timed[i].start, timed[i].end)]

\* kept: the timed words outside the window, rebuilt field by field
KeptWords(existing, region_start, region_end) ==
    LET outside == SelectSeq(existing,
                        LAMBDA w : w.timed /\ ~InWindow(w, region_start, region_end))
    IN  [i \in 1..Len(outside) |->
            Word(StripCh(outside[i].text, " "), outside[i].start, outside[i].end)]

\* list.sort(key=start): stable
SortByStart(ws) ==
    LET pos(i) == Cardinality({j \in 1..Len(ws) :
                        ws[j].start < ws[i].start \/ (ws[j].start = ws[i].start /\ j < i)}) + 1
    IN  [k \in 1..Len(ws) |-> ws[CHOOSE i \in 1..Len(ws) : pos(i) = k]]

\* merged = kept + new_words; merged.sort(...)
MergeWords(existing, new_words, region_start, region_end) ==
    SortByStart(KeptWords(existing, region_start, region_end) \o new_words)

\* whether the name prev_words is bound where media_align_region_endpoint
\* reads it: it is assigned in media_align_endpoint only
prev_words_bound == FALSE

\* the words of a transcribed job to draw from
PriorPool ==
    <<Word(<<"a">>, 0, 2), Word(<<" ", "b">>, 2, 4), Word(<<"c">>, 3, 5),
      Word(<<"d">>, 5, 5), Untimed(<<"u">>)>>

\* the entries of PriorPool at the indices in S, in order
SubPool(S) ==
    [k \in 1..Cardinality(S) |->
        PriorPool[CHOOSE i \in S : Cardinality({j \in S : j < i}) = k - 1]]

PriorTranscripts == {SubPool(S) : S \in SUBSET (1..Len(PriorPool))}
PriorSegments == {<<>>, <<[text |-> <<"s">>, start |-> 0, end |-> JobDuration]>>}

\* what whisperx.align hands back: the words of its segments, times relative
\* to the region clip; one entry that is not a dict
AlignedWord(text, s, e) == [dict |-> TRUE, text |-> text, start |-> s, end |-> e]
AlignerRuns ==
    {[ok |-> FALSE, words |-> <<>>],
     [ok |-> TRUE, words |-> <<>>],
     [ok |-> TRUE, words |-> <<AlignedWord(<<"x">>, 0, 1)>>],
     [ok |-> TRUE, words |-> <<AlignedWord(<<"y">>, 1, 2), AlignedWord(<<"x", " ">>, 0, 1)>>],
     [ok |-> TRUE, words |-> <<[dict |-> FALSE, text |-> <<>>, start |-> 0, end |-> 0],
                               AlignedWord(<<"x">>, 0, 1)>>]}

\* jobId: missing, the transcribed job, a job without files; numeric: start and
\* end parse as numbers; margin: <<>> for none
AlignRequest(job, numeric, start, end, margin) ==
    [job |-> job, numeric |-> numeric, start |-> start, end |-> end, margin |-> margin]

AlignRequests ==
    {AlignRequest("", TRUE, 2, 4, <<>>), AlignRequest("n", TRUE, 2, 4, <<>>),
     AlignRequest("j", FALSE, 0, 0, <<>>), AlignRequest("j", TRUE, 4, 2, <<0>>),
     AlignRequest("j", TRUE, 4, 4, <<0>>)}
        \cup {AlignRequest("j", TRUE, w[1], w[2], w[3]) :
                w \in {<<2, 4, <<0>>>>, <<2, 4, <<>>>>, <<2, 4, <<0 - 1>>>>, <<3, 4, <<1>>>>,
                       <<0, 2, <<0>>>>, <<4, 9, <<0>>>>, <<5, 9, <<1>>>>}}

AlignRecord(status, valid, rs, re, prior, new, persisted) ==
    [status |-> status, valid |-> valid, region_start |-> rs, region_end |-> re,
     prior |-> prior, new |-> new, persisted |-> persisted]

\* media_align_region_endpoint()
AlignRegion ==
    /\ alCtr < MaxAlign
    /\ \E req \in AlignRequests, enabled \in BOOLEAN :
        LET margin_s == IF req.margin = <<>> THEN DefaultMargin ELSE req.margin[1]
            region_start == Max(0, req.start - Max(0, margin_s))
            region_end == Min(JobDuration, req.end + Max(0, margin_s))
            region_text == RegionText(txWords, txSegs, region_start, region_end)
            early == IF ~enabled THEN 503
                     ELSE IF req.job = "" \/ ~req.numeric THEN 400
                     ELSE IF req.end <= req.start THEN 400
                     ELSE IF req.job # "j" THEN 404
                     ELSE IF region_text = <<>> THEN 400
                     ELSE 200
        IN  IF early # 200
            THEN /\ alLast' = AlignRecord(early, FALSE, 0, 0, txWords, <<>>, FALSE)
                 /\ alCtr' = alCtr + 1
                 /\ UNCHANGED <<txWords, txSegs>>
            ELSE \E extracted \in BOOLEAN, run \in AlignerRuns, saved \in BOOLEAN :
                    LET new_words == NewWords(run.words, region_start)
                        merged == MergeWords(txWords, new_words, region_start, region_end)
                        done == extracted /\ run.ok
                    IN  /\ txWords' = IF done /\ saved THEN merged ELSE txWords
                        /\ alLast' =
                            IF ~done
                            THEN AlignRecord(500, FALSE, region_start, region_end, txWords,
                                             <<>>, FALSE)
                            ELSE AlignRecord(IF prev_words_bound THEN 200 ELSE 500, TRUE,
                                             region_start, region_end, txWords, new_words, saved)
                        /\ alCtr' = alCtr + 1
                        /\ UNCHANGED txSegs

NoAlign == AlignRecord(0, FALSE, 0, 0, <<>>, <<>>, FALSE)

InitAlign ==
    /\ txWords \in PriorTranscripts
    /\ txSegs \in PriorSegments
    /\ alCtr = 0
    /\ alLast = NoAlign

IdleAlign ==
    /\ txWords = <<>>
    /\ txSegs = <<>>
    /\ alCtr = 0
    /\ alLast = NoAlign

----------------------------------------------------------------------------
(* app.py: /media/replace_preview and /media/apply on the media job "j".    *)
(* Times are milliseconds; a WAV file of the job directory is kept as its   *)
(* name and its number of samples at the canonical rate.                    *)

\* bound on the number of requests to the two routes
MaxReplace == 1
\* length of the job's source.wav in seconds
JobSeconds == 2

JobId == <<"j">>

\* source.wav as _load_wav_mono(audio_wav, target_sr=24000) returns it: the
\* file was written at the canonical rate by /media/transcribe
JobSource == [i \in 1..(JobSeconds * SR) |-> 10 * (i % 4)]

\* the length of source.wav
SourceMs == (Len(JobSource) * 1000) \div SR

\* _ffprobe_duration_seconds(path): 0.0 when ffprobe fails
ffprobe_duration_seconds(probeOk) == IF probeOk THEN SourceMs ELSE 0

\* str(n) for any integer
DecInt(n) == IF n < 0 THEN <<"-">> \o Dec(0 - n) ELSE Dec(n)

RECURSIVE PathJoin(_)
PathJoin(parts) ==
    IF parts = <<>> THEN <<>> ELSE <<"/">> \o Head(parts) \o PathJoin(Tail(parts))

\* str(path) of a resolved path
PathStr(parts) == IF parts = <<>> THEN <<"/">> ELSE PathJoin(parts)

SourceWav == <<"s", "o", "u", "r", "c", "e", ".", "w", "a", "v">>
LatestWav == <<"l", "a", "t", "e", "s", "t", "_", "p", "r", "e", "v", "i", "e", "w", ".", "w", "a", "v">>
WavExt == <<".", "w", "a", "v">>

\* f"preview-{ts}.wav", f"diff-{ts}.wav"
PreviewName(ts) == <<"p", "r", "e", "v", "i", "e", "w", "-">> \o Dec(ts) \o WavExt
DiffName(ts) == <<"d", "i", "f", "f", "-">> \o Dec(ts) \o WavExt
\* f"ref-{int(region_start*1000)}-{int(region_end*1000)}.wav"
RefName(region_start, region_end) ==
    <<"r", "e", "f", "-">> \o DecInt(region_start) \o <<"-">> \o DecInt(region_end) \o WavExt
\* f"final{out_ext}"
FinalName(out_ext) == <<"f", "i", "n", "a", "l">> \o out_ext

\* a file written into a directory, replacing one of the same name
WriteFile(fs, name, samples) ==
    {f \in fs : f.name # name} \cup {[name |-> name, samples |-> samples]}

FileNames(fs) == {f.name : f \in fs}

\* _trim_silence(samples, top_db=40, ...): the samples from the first to the
\* last one within 40 dB of the peak, with the pre and post padding
trim_silence(samples, prepad_ms, postpad_ms) ==
    IF samples = <<>> THEN samples
    ELSE LET loud == {i \in 1..Len(samples) : Abs(samples[i]) * 100 > Peak(samples)}
             first == IF loud = {} THEN 0
                      ELSE (CHOOSE i \in loud : \A j \in loud : i <= j) - 1
             last == IF loud = {} THEN 0 ELSE CHOOSE i \in loud : \A j \in loud : j <= i
         IN  Slice(samples, Max(0, first - MsToSamples(prepad_ms)),
                   Min(Len(samples), last + MsToSamples(postpad_ms)))

\* duck_gain = max(0.0, min(1.0, 10 ** (duckDb / 20))) in hundredths, 0 for
\* None; duckDb is <<>> when the field is absent
DuckGain(duckDb) ==
    IF duckDb = <<>> THEN 0
    ELSE IF duckDb[1] >= 0 THEN 100
    ELSE IF duckDb[1] >= 0 - 6 THEN 50
    ELSE 25

\* the explicit-voice branch of media_replace_preview_endpoint:
\* [status, ref_voice]
explicit_voice_ref(ev, job_dir, files) ==
    LET looks_path == \/ IsAbsolute(ev)
                      \/ \E i \in 1..Len(ev) : ev[i] = "/"
                      \/ LowerStr(PathSuffix(ev)) \in XTTS_SUPPORTED_EXTENSIONS
        real == PathResolve(ev)
        allowed == RelativeTo(real, job_dir) \/ RelativeTo(real, XTTS_VOICE_DIR)
    IN  IF ~looks_path THEN [status |-> 200, ref_voice |-> ev]
        ELSE IF ~allowed THEN [status |-> 400, ref_voice |-> <<>>]
        ELSE IF real \notin files THEN [status |-> 400, ref_voice |-> <<>>]
        ELSE [status |-> 200, ref_voice |-> PathStr(real)]

\* the synthesised replacement as _load_wav_mono(rep_path) returns it; dLen is
\* by how many samples the external time stretch misses the target length
ReplacementClips ==
    {[audio |-> <<20>>, dLen |-> 0],
     [audio |-> <<0, 20, 30, 0>>, dLen |-> 0 - 1],
     [audio |-> [i \in 1..(JobSeconds * SR + 1) |-> 30], dLen |-> 1]}

\* regions in milliseconds: inside the source, the whole source, shorter than
\* a sample, starting before zero, ending past the end, empty, reversed,
\* starting at the end, starting past the end
RegionInputs ==
    {<<500, 1500>>, <<0, SourceMs>>, <<250, 300>>, <<0 - 500, 500>>,
     <<SourceMs - 500, SourceMs + 500>>, <<500, 500>>, <<1000, 500>>,
     <<SourceMs, SourceMs + 500>>, <<SourceMs + 500, SourceMs + 1000>>}

\* explicit voices: a known id, a file elsewhere on the host, a name in the
\* working directory, an unknown id, a clip of the voice directory, a file of
\* the job directory, a path that leaves the job directory
ReplaceVoices ==
    {<<"a">>, <<"/", "e", "/", "p">>, <<"q">>, <<"x">>, <<"/", "v", "/", "a", ".", "w", "a", "v">>,
     <<"/", "o", "/", "m", "/", "j", "/", "s", "o", "u", "r", "c", "e", ".", "w", "a", "v">>,
     <<"/", "o", "/", "m", "/", "j", "/", ".", ".", "/", ".", ".", "/", ".", ".", "/", "e", "/", "p">>}

BaseRequest ==
    [jobId |-> JobId, numeric |-> TRUE, start |-> 500, end |-> 1500, text |-> <<"e">>,
     voice |-> <<"a">>, margin_ms |-> 0, fade_ms |-> 30, duckDb |-> <<>>, trim |-> TRUE]

\* request bodies: every region with a known voice, a region inside and one
\* outside the source without a voice, every voice, and the base request with
\* one other field changed
ReplaceRequests ==
    {[BaseRequest EXCEPT !.start = r[1], !.end = r[2]] : r \in RegionInputs}
    \cup {[BaseRequest EXCEPT !.start = r[1], !.end = r[2], !.voice = <<>>] :
            r \in {<<500, 1500>>, <<SourceMs, SourceMs + 500>>}}
    \cup {[BaseRequest EXCEPT !.voice = v] : v \in ReplaceVoices}
    \cup {[BaseRequest EXCEPT !.jobId = j] : j \in {<<>>, <<"n">>}}
    \cup {[BaseRequest EXCEPT !.numeric = FALSE],
          [BaseRequest EXCEPT !.text = <<" ">>],
          [BaseRequest EXCEPT !.voice = <<>>, !.margin_ms = 500],
          [BaseRequest EXCEPT !.start = 0, !.end = SourceMs, !.fade_ms = 1000],
          [BaseRequest EXCEPT !.duckDb = <<0 - 6>>],
          [BaseRequest EXCEPT !.trim = FALSE]}

\* what the model keeps of a /media/replace_preview request: the response
\* status, the job, the region asked for, whether a reference clip was cut
\* from the source, the speaker reference handed to the engine (empty when no
\* engine run was started), whether an engine run was started, and the name
\* and number of samples of the preview written (empty and 0 when none was)
ReplaceRecord(status, req, cut, ref, synth, preview, samples) ==
    [op |-> "replace_preview", status |-> status, jobId |-> req.jobId,
     numeric |-> req.numeric, start |-> req.start, end |-> req.end,
     cut |-> cut, ref |-> ref, synth |-> synth, preview |-> preview, samples |-> samples]

\* outcomes of the XTTS run behind a replacement: the engine is not
\* available (NoRun), or one of the outcomes of its run
ReplaceRuns(server) == {NoRun} \cup RunsOf("xtts", server)

\* media_replace_preview_endpoint()
ReplacePreview ==
    /\ rpCtr < MaxReplace
    /\ rpCtr' = rpCtr + 1
    /\ \E req \in ReplaceRequests :
        LET job_id == StripCh(req.jobId, " ")
            early == IF job_id = <<>> THEN 400
                     ELSE IF ~req.numeric THEN 400
                     ELSE IF req.end <= req.start THEN 400
                     ELSE IF StripCh(req.text, " ") = <<>> THEN 400
                     ELSE 200
            job_dir == media_job_dir(job_id)
            cut == req.voice = <<>>
            Fail(status, ref, synth, files, out) ==
                /\ rpLast' = ReplaceRecord(status, req, cut /\ early = 200 /\ job_id = JobId,
                                           ref, synth, <<>>, 0)
                /\ jobFiles' = files
                /\ outDir' = out
                /\ synCtr' = IF synth THEN synCtr + 1 ELSE synCtr
        IN  IF early # 200
            THEN /\ Fail(early, <<>>, FALSE, jobFiles, outDir)
                 /\ UNCHANGED mediaDirs
            ELSE IF job_id # JobId
            THEN /\ Fail(404, <<>>, FALSE, jobFiles, outDir)
                 /\ mediaDirs' = mediaDirs \cup {job_id}
            ELSE
            /\ UNCHANGED mediaDirs
            /\ \E probeOk \in BOOLEAN, extractOk \in {b \in BOOLEAN : ~cut => b} :
                LET source_dur == ffprobe_duration_seconds(probeOk)
                    margin == IF req.margin_ms > 0 THEN req.margin_ms ELSE 0
                    region_start == Max(0, req.start - margin)
                    region_end == Min(source_dur, req.end + margin)
                    region_wav == RefName(region_start, region_end)
                IN  \E files1 \in {IF cut /\ extractOk THEN WriteFile(jobFiles, region_wav, 0)
                                   ELSE jobFiles} :
                    \E paths \in {HostFiles \cup {job_dir \o <<n>> : n \in FileNames(files1)}} :
                    \E chosen \in {IF cut
                                   THEN [status |-> IF extractOk THEN 200 ELSE 500,
                                         ref_voice |-> PathStr(job_dir \o <<region_wav>>)]
                                   ELSE explicit_voice_ref(req.voice, job_dir, paths)} :
                    IF chosen.status # 200
                    THEN Fail(chosen.status, <<>>, FALSE, files1, outDir)
                    ELSE
                    \E data \in {xtts_prepare_payload(req.text, chosen.ref_voice, TRUE,
                                                      <<"w", "a", "v">>, paths)} :
                    IF data.status # 200
                    THEN Fail(data.status, <<>>, FALSE, files1, outDir)
                    ELSE
                    \E run \in ReplaceRuns(xttsServer) :
                    \E synth \in {xtts_synthesise(NewFilename(synCtr, "xtts"), run, outDir,
                                                  run # NoRun, xttsServer)} :
                    IF synth.status # 200
                    THEN Fail(synth.status, data.voice_path, run # NoRun, files1,
                              outDir \cup synth.add)
                    ELSE
                    \E clip \in ReplacementClips, linked \in BOOLEAN :
                        LET rep == IF req.trim THEN trim_silence(clip.audio, 8, 8)
                                   ELSE clip.audio
                            i0 == MsToSamples(Max(0, req.start))
                            i1 == MsToSamples(Min(source_dur, req.end))
                            target_len == Max(i1 - i0, 1)
                            rep_stretched ==
                                IF Len(rep) = target_len THEN rep
                                ELSE time_stretch_to_len(rep, target_len,
                                        Max(0, target_len + clip.dLen))
                            ts == rpCtr + 1
                        IN  \E preview \in {apply_replace_with_crossfade(JobSource,
                                                rep_stretched, i0, i1, req.fade_ms,
                                                DuckGain(req.duckDb), target_len)} :
                            IF preview.err
                            THEN Fail(500, data.voice_path, TRUE, files1, outDir \cup synth.add)
                            ELSE
                            \E files2 \in {WriteFile(WriteFile(files1, PreviewName(ts),
                                              Len(preview.out)), DiffName(ts),
                                              Len(JobSource))} :
                                /\ rpLast' = ReplaceRecord(200, req, cut, data.voice_path,
                                                TRUE, PreviewName(ts), Len(preview.out))
                                /\ jobFiles' = IF linked
                                               THEN WriteFile(files2, LatestWav,
                                                              Len(preview.out))
                                               ELSE {f \in files2 : f.name # LatestWav}
                                /\ outDir' = outDir \cup synth.add
                                /\ synCtr' = synCtr + 1
    /\ UNCHANGED <<jobMeta, chatRoot, xttsServer, previews, synLast>>

\* the containers /media/apply accepts as "format"
ApplyFormats == {<<"m", "p", "4">>, <<"m", "k", "v">>, <<"m", "o", "v">>, <<"w", "e", "b", "m">>}

\* out_ext with any requested format accepted
apply_out_ext_any(fmt, src_path) ==
    LET suffix == LowerStr(PathSuffix(src_path))
        src_ext == IF suffix # <<>> THEN suffix ELSE <<".", "m", "p", "4">>
    IN  IF fmt # <<>> THEN <<".">> \o fmt ELSE src_ext

\* out_ext of media_apply_endpoint
apply_out_ext(fmt, src_path) ==
    LET suffix == LowerStr(PathSuffix(src_path))
        src_ext == IF suffix # <<>> THEN suffix ELSE <<".", "m", "p", "4">>
    IN  IF fmt \in ApplyFormats THEN <<".">> \o fmt ELSE src_ext

\* the audio codec of both ffmpeg commands
apply_acodec(out_ext) == IF out_ext = <<".", "w", "e", "b", "m">> THEN "libopus" ELSE "aac"

\* the video codec of the fallback command
apply_vcodec(out_ext) == IF out_ext = <<".", "w", "e", "b", "m">> THEN "libvpx-vp9" ELSE "libx264"

\* the ffmpeg commands media_apply_endpoint runs, in order, for the outcome
\* of the mux: the stream copy worked, only the re-encode worked, both failed
apply_attempts(out_ext, mux) ==
    LET first == [vcodec |-> "copy", acodec |-> apply_acodec(out_ext), ok |-> mux = "copied"]
        second == [vcodec |-> apply_vcodec(out_ext), acodec |-> apply_acodec(out_ext),
                   ok |-> mux = "reencoded"]
    IN  IF mux = "copied" THEN <<first>> ELSE <<first, second>>

MuxRuns == {"copied", "reencoded", "failed"}

\* "format" of the request body
FormatRequests == {<<>>, <<"m", "p", "4">>, <<"w", "e", "b", "m">>, <<"M", "K", "V">>, <<"m", "o", "v">>, <<"a", "v", "i">>}

\* job_meta.json and the original input of the job: whether the file is
\* readable, the input path and has_video it records, whether the input still
\* exists and whether it holds a video stream.  An upload is kept in the job
\* directory under its own suffix, a download in the YouTube cache.
JobMetas ==
    {[meta |-> TRUE, input_path |-> <<"/", "o", "/", "m", "/", "j", "/", "s", "o", "u", "r", "c", "e", ".", "M", "O", "V">>,
      has_video |-> TRUE, exists |-> TRUE, video |-> TRUE],
     [meta |-> TRUE, input_path |-> <<"/", "c", "/", "y", ".", "w", "e", "b", "m">>,
      has_video |-> TRUE, exists |-> TRUE, video |-> TRUE],
     [meta |-> TRUE, input_path |-> <<"/", "c", "/", "y", ".", "m", "p", "4">>,
      has_video |-> TRUE, exists |-> FALSE, video |-> FALSE],
     [meta |-> TRUE, input_path |-> <<"/", "o", "/", "m", "/", "j", "/", "s", "o", "u", "r", "c", "e", ".", "m", "p", "3">>,
      has_video |-> FALSE, exists |-> TRUE, video |-> FALSE],
     [meta |-> FALSE, input_path |-> <<"/", "o", "/", "m", "/", "j", "/", "s", "o", "u", "r", "c", "e", ".", "m", "p", "4">>,
      has_video |-> FALSE, exists |-> TRUE, video |-> TRUE]}

\* what the model keeps of a /media/apply request: the response status, the
\* job, the requested format in lower case, whether latest_preview.wav was
\* there, what the re-probe of the input reported, the mode and container of
\* the response, the final file written and the ffmpeg commands run
ApplyRecord(status, job_id, fmt, latest, probed, mode, container, final, attempts) ==
    [op |-> "apply", status |-> status, jobId |-> job_id, fmt |-> fmt, latest |-> latest,
     probed |-> probed, mode |-> mode, container |-> container, final |-> final,
     attempts |-> attempts]

\* media_apply_endpoint()
Apply ==
    /\ rpCtr < MaxReplace
    /\ rpCtr' = rpCtr + 1
    /\ \E job_id \in {<<>>, JobId} :
       \E format \in {f \in FormatRequests : job_id = <<>> => f = <<>>} :
        LET fmt == LowerStr(format)
            has_src == jobMeta.meta /\ jobMeta.input_path # <<>>
            src_exists == has_src /\ jobMeta.exists
            latest == {f \in jobFiles : f.name = LatestWav}
        IN  IF job_id = <<>> \/ latest = {}
            THEN /\ rpLast' = ApplyRecord(400, job_id, fmt, latest # {}, FALSE, "none", <<>>, <<>>, <<>>)
                 /\ UNCHANGED jobFiles
            ELSE
            \E probeOk \in {b \in BOOLEAN : ~src_exists => b} :
                LET probed == src_exists /\ probeOk /\ jobMeta.video
                    has_video == IF src_exists THEN probed
                                 ELSE jobMeta.meta /\ jobMeta.has_video
                    out_ext == apply_out_ext(fmt, jobMeta.input_path)
                IN  IF has_video /\ src_exists
                    THEN \E mux \in MuxRuns :
                        IF mux = "failed"
                        THEN /\ rpLast' = ApplyRecord(500, job_id, fmt, TRUE, probed, "none", <<>>,
                                             <<>>, apply_attempts(out_ext, mux))
                             /\ UNCHANGED jobFiles
                        ELSE /\ rpLast' = ApplyRecord(200, job_id, fmt, TRUE, probed, "video",
                                             Tail(out_ext), FinalName(out_ext),
                                             apply_attempts(out_ext, mux))
                             /\ jobFiles' = WriteFile(jobFiles, FinalName(out_ext), 0)
                    ELSE /\ rpLast' = ApplyRecord(200, job_id, fmt, TRUE, probed, "audio",
                                         Tail(WavExt), FinalName(WavExt), <<>>)
                         /\ jobFiles' = WriteFile(jobFiles, FinalName(WavExt),
                                            (CHOOSE f \in latest : TRUE).samples)
    /\ UNCHANGED <<jobMeta, mediaDirs, synVars>>

\* the job directory after /media/transcribe, and after an earlier
\* /media/replace_preview
JobStates ==
    {{[name |-> SourceWav, samples |-> Len(JobSource)]},
     {[name |-> SourceWav, samples |-> Len(JobSource)],
      [name |-> PreviewName(0), samples |-> Len(JobSource)],
      [name |-> DiffName(0), samples |-> Len(JobSource)],
      [name |-> LatestWav, samples |-> Len(JobSource)]}}

NoReplace ==
    [op |-> "none", status |-> 200]

InitReplace ==
    /\ jobMeta \in JobMetas
    /\ jobFiles \in JobStates
    /\ mediaDirs = {JobId}
    /\ rpCtr = 0
    /\ rpLast = NoReplace

IdleReplace ==
    /\ jobMeta = [meta |-> FALSE, input_path |-> <<>>, has_video |-> FALSE,
                  exists |-> FALSE, video |-> FALSE]
    /\ jobFiles = {}
    /\ mediaDirs = {}
    /\ rpCtr = 0
    /\ rpLast = NoReplace
----------------------------------------------------------------------------
(* app.py: the voice preview cache, PREVIEW_GENERATORS.  A call of a        *)
(* generator returns the cached clip of (engine, voice, language) or        *)
(* synthesises it, writes it under PREVIEW_DIR and unlinks the synthesised  *)
(* file.                                                                    *)

MaxPreview == 2

PREVIEW_DIR == OUTPUT_DIR \o << <<"p">> >>
PREVIEW_GENERATORS == {"kokoro", "xtts", "openvoice", "chattts"}

\* "en-us", "default", "English"
LangEnUs == <<"e", "n">>
LangDefault == <<"d", "f">>
LangEnglish == <<"E", "n", "g">>

\* _preview_language_key(language, fallback=...); <<>> stands for None
preview_language_key(language, fallback) ==
    IF language = <<>> THEN fallback
    ELSE IF LowerStr(StripCh(language, " ")) # <<>> THEN LowerStr(StripCh(language, " "))
    ELSE fallback

\* _preview_key(engine, voice_id, language)
preview_key(engine, voice_id, language) == voice_id \o <<"-">> \o language \o <<"-", "v", "1">>

\* _preview_path(engine, voice_id, language): PREVIEW_DIR / engine / f"{key}.wav";
\* an absolute right operand of "/" replaces the left one
preview_path(engine, voice_id, language) ==
    IF IsAbsolute(preview_key(engine, voice_id, language))
    THEN PathParts(preview_key(engine, voice_id, language) \o WavExt)
    ELSE PREVIEW_DIR \o << <<engine>> >>
            \o PathParts(preview_key(engine, voice_id, language) \o WavExt)

\* lang_value / language_value of the generator of the engine; meta_language
\* is the language of the OpenVoice reference (<<>> when it has none)
preview_language_value(engine, language, meta_language) ==
    IF language # <<>> THEN language
    ELSE IF engine = "openvoice" /\ meta_language # <<>> THEN meta_language
    ELSE IF engine = "openvoice" THEN LangEnglish
    ELSE LangEnUs

\* the language key of the generator of the engine
preview_generator_key(engine, language, meta_language) ==
    preview_language_key(preview_language_value(engine, language, meta_language),
                         IF engine = "kokoro" THEN LangEnUs ELSE LangDefault)

\* the cache test left out: the clip is made again on every call
preview_cached_never(path, files, force) == FALSE

\* path.exists() and not force
preview_cached(path, files, force) == (\E f \in files : f.path = path) /\ ~force

\* sf.write(path, ...): the file of the path replaced by the clip of this call
WritePreview(files, path, gen) == {f \in files : f.path # path} \cup {[path |-> path, gen |-> gen]}

PreviewVoices == {<<"a">>, <<"o">>, <<"/", "t">>}
PreviewLanguages == {<<>>, <<"E", "N">>}

\* language of the OpenVoice reference "o" in its metadata
OpenVoiceMetaLanguage == <<>>

\* what the model keeps of a generator call: status 200 when it returned a
\* path; synth: an engine run was started; wrote: the files under
\* PREVIEW_DIR were changed
PreviewRecord(engine, voice, language, force, status, path, synth, wrote) ==
    [engine |-> engine, voice |-> voice, language |-> language, force |-> force,
     status |-> status, path |-> path, synth |-> synth, wrote |-> wrote]

NoPreview == PreviewRecord("none", <<>>, <<>>, FALSE, 0, <<>>, FALSE, FALSE)

\* the engine run of a generator call: the engine is unavailable and nothing
\* is run, or it is available and the run has one of its outcomes
PreviewRuns(engine, server) ==
    {[run |-> NoRun, available |-> FALSE]}
        \cup {[run |-> r, available |-> TRUE] : r \in RunsOf(engine, server)}

\* one call generator(voice_id, language, force=force) of PREVIEW_GENERATORS
GetOrCreatePreview ==
    /\ pvCtr < MaxPreview
    /\ pvCtr' = pvCtr + 1
    /\ pvPrev' = pvLast
    /\ \E engine \in PREVIEW_GENERATORS, voice \in PreviewVoices,
          language \in PreviewLanguages, force \in BOOLEAN :
        \E path \in {preview_path(engine, voice,
                        preview_generator_key(engine, language, OpenVoiceMetaLanguage))} :
        LET Done(status, synth, files) ==
                /\ pvFiles' = files
                /\ pvLast' = PreviewRecord(engine, voice, language, force, status,
                                           IF status = 200 THEN path ELSE <<>>,
                                           synth, files # pvFiles)
            Quiet == UNCHANGED <<outDir, chatRoot, synCtr>>
        IN  IF engine = "openvoice" /\ voice \notin OpenVoiceIds
            THEN Done(400, FALSE, pvFiles) /\ Quiet
            ELSE IF preview_cached(path, pvFiles, force)
            THEN Done(200, FALSE, pvFiles) /\ Quiet
            ELSE IF engine = "kokoro"
            THEN \* get_tts(), tts.create, sf.write
                 \E loaded \in BOOLEAN :
                 \E run \in IF loaded THEN KokoroRuns ELSE {NoRun} :
                 \E partial \in IF run.exit = "write_raised" THEN BOOLEAN ELSE {FALSE} :
                    /\ Quiet
                    /\ IF ~loaded THEN Done(500, FALSE, pvFiles)
                       ELSE IF run.exit = "ok"
                       THEN Done(200, TRUE, WritePreview(pvFiles, path, pvCtr + 1))
                       ELSE IF run.exit = "write_raised" /\ partial
                       THEN Done(500, TRUE, WritePreview(pvFiles, path, pvCtr + 1))
                       ELSE Done(500, TRUE, pvFiles)
            ELSE \E prep \in {Prepare(engine, <<"e">>, voice, TRUE, <<"w", "a", "v">>)} :
                 IF prep.status # 200
                 THEN Done(prep.status, FALSE, pvFiles) /\ Quiet
                 ELSE \E call \in PreviewRuns(engine, xttsServer) :
                      \E first \in {Handler(engine, NewFilename(synCtr, engine), call.run,
                                            call.available)} :
                      \* the ChatTTS generator runs the engine again without the
                      \* speaker when the error names --spk
                      \E run2 \in IF engine = "chattts" /\ first.status # 200 /\ call.available
                                  THEN ChatRuns \cup {NoRun} ELSE {NoRun} :
                      \E res \in {IF run2 # NoRun
                                  THEN chattts_synthesise(NewFilename(synCtr + 1, engine), run2,
                                                          first.chat, TRUE, synCtr + 2)
                                  ELSE first} :
                      \E found \in {res.status = 200 /\ res.filename \in outDir \cup res.add} :
                      \* _write_preview_from_file: the load or the write can raise,
                      \* the write after it left a part of the file
                      \E written \in IF found THEN {"ok", "load_raised", "write_raised", "partial"}
                                     ELSE {"none"} :
                        /\ synCtr' = synCtr + (IF run2 # NoRun THEN 2 ELSE 1)
                        /\ chatRoot' = res.chat
                        \* source_path.unlink() in the finally clause
                        /\ outDir' = IF found
                                     THEN (outDir \cup first.add \cup res.add) \ {res.filename}
                                     ELSE outDir \cup first.add \cup res.add
                        /\ IF res.status # 200 THEN Done(res.status, call.available, pvFiles)
                           ELSE IF ~found THEN Done(500, TRUE, pvFiles)
                           ELSE IF written = "ok"
                           THEN Done(200, TRUE, WritePreview(pvFiles, path, pvCtr + 1))
                           ELSE IF written = "partial"
                           THEN Done(500, TRUE, WritePreview(pvFiles, path, pvCtr + 1))
                           ELSE Done(500, TRUE, pvFiles)
    /\ UNCHANGED <<xttsServer, previews, synLast>>

InitPreview ==
    /\ pvFiles = {}
    /\ pvCtr = 0
    /\ pvPrev = NoPreview
    /\ pvLast = NoPreview

IdlePreview == InitPreview

----------------------------------------------------------------------------
(* app.py: engine resolution.  The availability predicate of an engine      *)
(* looks at the files of the engine on every call of resolve_engine.        *)

MaxEngineReq == 2

\* the files the availability predicates look for: MODEL_PATH and
\* VOICES_PATH of Kokoro, the interpreter and service directory of XTTS, the
\* interpreter, checkpoints and references of OpenVoice, the checkout of ChatTTS
EngineAssets == {"model", "voices", "xtts_cli", "openvoice", "chattts_root"}

\* xtts_is_available()
xtts_is_available(files, server) == server \/ "xtts_cli" \in files

\* openvoice_is_available()
openvoice_is_available(files) == "openvoice" \in files

\* chattts_is_available()
chattts_is_available(files) == "chattts_root" \in files

\* the availability predicates assumed true once the process is up
engine_is_available_always(key, files, server, raised) == TRUE

\* engine_is_available(engine): the predicate of the registry entry, False
\* when it raises
engine_is_available(key, files, server, raised) ==
    IF raised THEN FALSE
    ELSE IF key = "kokoro" THEN "model" \in files /\ "voices" \in files
    ELSE IF key = "xtts" THEN xtts_is_available(files, server)
    ELSE IF key = "openvoice" THEN openvoice_is_available(files)
    ELSE chattts_is_available(files)

\* resolve_engine(engine_id, allow_unavailable=...): [status, key, available]
resolve_engine(engine_id, allow_unavailable, files, server, raised) ==
    LET key == IF engine_id = "" THEN DEFAULT_TTS_ENGINE ELSE engine_id
    IN  IF key \notin ENGINE_REGISTRY THEN [status |-> 400, key |-> key, available |-> FALSE]
        ELSE IF ~engine_is_available(key, files, server, raised) /\ ~allow_unavailable
        THEN [status |-> 503, key |-> key, available |-> FALSE]
        ELSE [status |-> 200, key |-> key,
              available |-> engine_is_available(key, files, server, raised)]

\* what the model keeps of a request: the route, the engine key, whether the
\* availability predicate raised, whether resolve_engine returned, whether
\* the prepare hook and the synthesise hook were called, and the response
\* status
EngineRecord(route, key, raised, resolved, prepared, ran, status) ==
    [route |-> route, key |-> key, raised |-> raised,
     resolved |-> resolved, prepared |-> prepared, ran |-> ran, status |-> status]

NoEngineRequest == EngineRecord("none", "none", FALSE, FALSE, FALSE, FALSE, 0)

EngineVoices == {<<"a">>, <<"o">>}

\* a file of an engine is installed or removed between two requests
ChangeEngineFiles ==
    /\ \E asset \in EngineAssets :
        engFiles' = IF asset \in engFiles THEN engFiles \ {asset} ELSE engFiles \cup {asset}
    /\ UNCHANGED <<engCtr, engPrev, engLast, synVars>>

\* synthesise_endpoint(): resolve_engine, the prepare hook, the synthesise hook
SynthesiseRequest ==
    /\ engCtr < MaxEngineReq
    /\ engCtr' = engCtr + 1
    /\ engPrev' = [key |-> engLast.key, status |-> engLast.status]
    /\ \E engine_id \in EngineInputs, voice \in EngineVoices, raised \in BOOLEAN :
        \E engine \in {resolve_engine(engine_id, FALSE, engFiles, xttsServer, raised)} :
        LET Done(resolved, prepared, ran, status) ==
                engLast' = EngineRecord("synthesise", engine.key, raised,
                                        resolved, prepared, ran, status)
            Quiet == UNCHANGED <<outDir, chatRoot, synCtr>>
        IN  IF engine.status # 200 THEN Done(FALSE, FALSE, FALSE, engine.status) /\ Quiet
            ELSE \E prep \in {Prepare(engine.key, <<"e">>, voice, TRUE, <<"w", "a", "v">>)} :
                 IF prep.status # 200 THEN Done(TRUE, TRUE, FALSE, prep.status) /\ Quiet
                 ELSE \E run \in RunsOf(engine.key, xttsServer), again \in BOOLEAN :
                      \* the hooks of XTTS, OpenVoice and ChatTTS test the
                      \* availability themselves; the predicate may raise then
                      \E res \in {Handler(engine.key, NewFilename(synCtr, engine.key), run,
                                    engine_is_available(engine.key, engFiles, xttsServer, again))} :
                        /\ outDir' = outDir \cup res.add
                        /\ chatRoot' = res.chat
                        /\ synCtr' = synCtr + 1
                        /\ Done(TRUE, TRUE, TRUE, res.status)
    /\ UNCHANGED <<engFiles, xttsServer, previews, synLast>>

\* the listing routes: resolve_engine(engine_id, allow_unavailable=True)
ListRequest ==
    /\ engCtr < MaxEngineReq
    /\ engCtr' = engCtr + 1
    /\ engPrev' = [key |-> engLast.key, status |-> engLast.status]
    /\ \E engine_id \in EngineInputs, raised \in BOOLEAN :
        \E engine \in {resolve_engine(engine_id, TRUE, engFiles, xttsServer, raised)} :
            engLast' = EngineRecord("list", engine.key, raised,
                                    engine.status = 200, FALSE, FALSE, engine.status)
    /\ UNCHANGED <<engFiles, synVars>>

InitEngines ==
    /\ engFiles \in {{}, EngineAssets}
    /\ engCtr = 0
    /\ engPrev = [key |-> "none", status |-> 0]
    /\ engLast = NoEngineRequest

IdleEngines ==
    /\ engFiles = {}
    /\ engCtr = 0
    /\ engPrev = [key |-> "none", status |-> 0]
    /\ engLast = NoEngineRequest

----------------------------------------------------------------------------
(* app.py: _maybe_cleanup_media_artifacts called by concurrent requests.    *)
(* Every thread runs the function statement by statement; the clock moves   *)
(* between any two statements.  Times are hours.                            *)

CleanThreads == 2
MaxCleanCalls == 3
MaxCleanClock == 36

CleanIds == 1..CleanThreads

\* how far the clock moves at once
ClockSteps == {6, 12}

\* what the filesystem does to a reaping pass: nothing, an error inside the
\* loop over the entries (caught per entry), or an error outside it (caught
\* by the outer handler, the rest of the pass is skipped)
FsOutcomes == {"ok", "entry_raised", "listing_raised"}

\* how a call that met the filesystem outcome ends
cleanup_result(fs) == "returned"

\* now = time.time()
CleanEnter(t) ==
    /\ clPc[t] = "idle"
    /\ clCalls < MaxCleanCalls
    /\ clCalls' = clCalls + 1
    /\ clNow' = [clNow EXCEPT ![t] = clClock]
    /\ clPc' = [clPc EXCEPT ![t] = "sampled"]
    /\ UNCHANGED <<clClock, clLast, clLock, clPasses, clEnded>>

\* with _cleanup_lock: (entry)
CleanAcquire(t) ==
    /\ clPc[t] = "sampled"
    /\ clLock = 0
    /\ clLock' = t
    /\ clPc' = [clPc EXCEPT ![t] = "locked"]
    /\ UNCHANGED <<clClock, clLast, clNow, clPasses, clCalls, clEnded>>

\* the body of the with statement and its exit: return when the interval has
\* not passed, else _last_cleanup_ts = now; the pass starts as the lock is left
CleanGate(t) ==
    /\ clPc[t] = "locked"
    /\ clLock' = 0
    /\ IF CleanupDue(clLast, clNow[t])
       THEN /\ clLast' = clNow[t]
            /\ clPasses' = Append(clPasses, [thread |-> t, now |-> clNow[t], start |-> clClock])
            /\ clPc' = [clPc EXCEPT ![t] = "reaping"]
            /\ UNCHANGED clEnded
       ELSE /\ clPc' = [clPc EXCEPT ![t] = "idle"]
            /\ clEnded' = clEnded \cup {"returned"}
            /\ UNCHANGED <<clLast, clPasses>>
    /\ UNCHANGED <<clClock, clNow, clCalls>>

\* the two loops of the reaping pass
CleanReap(t) ==
    /\ clPc[t] = "reaping"
    /\ \E fs \in FsOutcomes : clEnded' = clEnded \cup {cleanup_result(fs)}
    /\ clPc' = [clPc EXCEPT ![t] = "idle"]
    /\ UNCHANGED <<clClock, clLast, clLock, clNow, clPasses, clCalls>>

\* time passes
CleanTick ==
    /\ \E d \in ClockSteps :
        /\ clClock + d <= MaxCleanClock
        /\ clClock' = clClock + d
    /\ UNCHANGED <<clLast, clLock, clPc, clNow, clPasses, clCalls, clEnded>>

InitCleanup ==
    /\ clClock = 0
    /\ clLast = NoTime
    /\ clLock = 0
    /\ clPc = [t \in CleanIds |-> "idle"]
    /\ clNow = [t \in CleanIds |-> 0]
    /\ clPasses = <<>>
    /\ clCalls = 0
    /\ clEnded = {}

IdleCleanup == InitCleanup

----------------------------------------------------------------------------
(* app.py: get_tts(), the lazily built Kokoro handle, called by concurrent  *)
(* requests.  Every thread runs the function statement by statement.  An    *)
(* instance is named by the number of the construction that made it; 0      *)
(* stands for None.                                                         *)

TtsThreads == 2
MaxTtsCalls == 4

TtsIds == 1..TtsThreads

\* the inner test left out: whoever gets the lock builds an instance
tts_unset_always(instance) == TRUE

\* _tts_instance is None
tts_unset(instance) == instance = 0

\* the outer "if _tts_instance is None"
TtsCheck(t) ==
    /\ ttsPc[t] = "idle"
    /\ ttsCalls < MaxTtsCalls
    /\ ttsCalls' = ttsCalls + 1
    /\ ttsPc' = [ttsPc EXCEPT ![t] = IF ttsInstance = 0 THEN "waiting" ELSE "returning"]
    /\ UNCHANGED <<ttsInstance, ttsLock, ttsFiles, ttsBuilt, ttsOut>>

\* with _tts_lock: (entry)
TtsAcquire(t) ==
    /\ ttsPc[t] = "waiting"
    /\ ttsLock = 0
    /\ ttsLock' = t
    /\ ttsPc' = [ttsPc EXCEPT ![t] = "locked"]
    /\ UNCHANGED <<ttsInstance, ttsFiles, ttsBuilt, ttsCalls, ttsOut>>

\* the body of the with statement and its exit: the inner test, the two
\* tests of the files, Kokoro(...), which can raise as well
TtsInit(t) ==
    /\ ttsPc[t] = "locked"
    /\ ttsLock' = 0
    /\ IF ~tts_unset(ttsInstance)
       THEN /\ ttsPc' = [ttsPc EXCEPT ![t] = "returning"]
            /\ UNCHANGED <<ttsInstance, ttsBuilt, ttsOut>>
       ELSE \E loads \in BOOLEAN :
            IF ~ttsFiles \/ ~loads
            THEN /\ ttsPc' = [ttsPc EXCEPT ![t] = "idle"]
                 /\ ttsOut' = ttsOut \cup {[thread |-> t, raised |-> TRUE, got |-> 0,
                                             handle |-> ttsInstance]}
                 /\ UNCHANGED <<ttsInstance, ttsBuilt>>
            ELSE /\ ttsBuilt' = ttsBuilt + 1
                 /\ ttsInstance' = ttsBuilt + 1
                 /\ ttsPc' = [ttsPc EXCEPT ![t] = "returning"]
                 /\ UNCHANGED ttsOut
    /\ UNCHANGED <<ttsFiles, ttsCalls>>

\* return _tts_instance
TtsReturn(t) ==
    /\ ttsPc[t] = "returning"
    /\ ttsPc' = [ttsPc EXCEPT ![t] = "idle"]
    /\ ttsOut' = ttsOut \cup {[thread |-> t, raised |-> FALSE, got |-> ttsInstance,
                                handle |-> ttsInstance]}
    /\ UNCHANGED <<ttsInstance, ttsLock, ttsFiles, ttsBuilt, ttsCalls>>

\* the model and the voice bank are put in place
TtsInstall ==
    /\ ~ttsFiles
    /\ ttsFiles' = TRUE
    /\ UNCHANGED <<ttsInstance, ttsLock, ttsPc, ttsBuilt, ttsCalls, ttsOut>>

InitTts ==
    /\ ttsInstance = 0
    /\ ttsLock = 0
    /\ ttsFiles \in BOOLEAN
    /\ ttsPc = [t \in TtsIds |-> "idle"]
    /\ ttsBuilt = 0
    /\ ttsCalls = 0
    /\ ttsOut = {}

IdleTts ==
    /\ ttsInstance = 0
    /\ ttsLock = 0
    /\ ttsFiles = FALSE
    /\ ttsPc = [t \in TtsIds |-> "idle"]
    /\ ttsBuilt = 0
    /\ ttsCalls = 0
    /\ ttsOut = {}

----------------------------------------------------------------------------
(* app.py: _record_stat and out/media_stats.json.  A sample is named by the *)
(* number of the call that recorded it.  The file is absent, holds a JSON   *)
(* object of lists, or holds something json.loads rejects (an empty or      *)
(* partly written file).                                                    *)

StatsCap == 100
MaxStatCalls == 3
StatThreads == 2

StatIds == 1..StatThreads
StatKinds == {"transcribe", "align_region"}

NoStats == [k \in StatKinds |-> <<>>]
StatsFile(state, data) == [state |-> state, data |-> data]

\* the list cut to its first 100 entries
stat_trim_head(list) == SubSeq(list, 1, StatsCap)

\* data[kind][-100:]
stat_trim(list) == SubSeq(list, Len(list) - StatsCap + 1, Len(list))

\* the object after data[kind].append(sample) and the cut to 100 entries
stat_append(data, kind, sample) ==
    [data EXCEPT ![kind] = IF Len(Append(data[kind], sample)) > StatsCap
                           THEN stat_trim(Append(data[kind], sample))
                           ELSE Append(data[kind], sample)]

\* the read of _record_stat: [ok, data]; the file is read when it exists, the
\* read or json.loads can raise
stat_read(file, readable) ==
    IF file.state = "absent" THEN [ok |-> TRUE, data |-> NoStats]
    ELSE IF file.state = "corrupt" \/ ~readable THEN [ok |-> FALSE, data |-> NoStats]
    ELSE [ok |-> TRUE, data |-> file.data]

\* what write_text leaves: the new text, the file as it was when open()
\* raised, or a part of the text when the write raised
StatWrites == {"ok", "open_raised", "write_raised"}

\* _record_stat(kind, sample) run alone: [file, recorded]
record_stat(file, kind, sample, readable, written) ==
    IF ~stat_read(file, readable).ok THEN [file |-> file, recorded |-> FALSE]
    ELSE IF written = "open_raised" THEN [file |-> file, recorded |-> FALSE]
    ELSE IF written = "write_raised"
    THEN [file |-> StatsFile("corrupt", NoStats), recorded |-> FALSE]
    ELSE [file |-> StatsFile("ok", stat_append(stat_read(file, readable).data, kind, sample)),
          recorded |-> TRUE]

\* one call of _record_stat with no other call running
RecordStat ==
    /\ stCalls < MaxStatCalls
    /\ stCalls' = stCalls + 1
    /\ stCtr' = stCtr + 1
    /\ \E kind \in StatKinds, readable \in BOOLEAN, written \in StatWrites :
        \E res \in {record_stat(stFile, kind, stCtr + 1, readable, written)} :
            /\ stFile' = res.file
            /\ stHist' = IF res.recorded
                         THEN [stHist EXCEPT ![kind] = Append(@, stCtr + 1)] ELSE stHist
            /\ stDone' = stDone \cup {[kind |-> kind, sample |-> stCtr + 1,
                                        ended |-> "returned", recorded |-> res.recorded]}
    /\ UNCHANGED <<stPc, stLocal>>

\* a thread starts a call: the test of stats_path.exists(), read_text and
\* json.loads, then the append and the cut on its own copy
StatRead(t) ==
    /\ stPc[t] = "idle"
    /\ stCalls < MaxStatCalls
    /\ stCalls' = stCalls + 1
    /\ stCtr' = stCtr + 1
    /\ \E kind \in StatKinds :
        \E got \in {stat_read(stFile, TRUE)} :
            IF got.ok
            THEN /\ stLocal' = [stLocal EXCEPT ![t] =
                        [kind |-> kind, sample |-> stCtr + 1,
                         data |-> stat_append(got.data, kind, stCtr + 1)]]
                 /\ stPc' = [stPc EXCEPT ![t] = "opening"]
                 /\ UNCHANGED stDone
            ELSE /\ stDone' = stDone \cup {[kind |-> kind, sample |-> stCtr + 1,
                                             ended |-> "returned", recorded |-> FALSE]}
                 /\ UNCHANGED <<stPc, stLocal>>
    /\ UNCHANGED <<stFile, stHist>>

\* write_text opens the file for writing, which empties it
StatOpen(t) ==
    /\ stPc[t] = "opening"
    /\ stFile' = StatsFile("corrupt", NoStats)
    /\ stPc' = [stPc EXCEPT ![t] = "writing"]
    /\ UNCHANGED <<stCtr, stCalls, stHist, stLocal, stDone>>

\* write_text writes the text and closes the file; the call returns
StatWrite(t) ==
    /\ stPc[t] = "writing"
    /\ stFile' = StatsFile("ok", stLocal[t].data)
    /\ stHist' = [stHist EXCEPT ![stLocal[t].kind] = Append(@, stLocal[t].sample)]
    /\ stDone' = stDone \cup {[kind |-> stLocal[t].kind, sample |-> stLocal[t].sample,
                                ended |-> "returned", recorded |-> TRUE]}
    /\ stPc' = [stPc EXCEPT ![t] = "idle"]
    /\ UNCHANGED <<stCtr, stCalls, stLocal>>

\* the stats files a run of the program leaves: none, a short history, a
\* history one short of the cap, a full one
StatLengths == {0, 1, StatsCap - 1, StatsCap}
StatHistory(n) == [k \in StatKinds |-> IF k = "transcribe" THEN [i \in 1..n |-> i] ELSE <<>>]

NoStatCall == [kind |-> "none", sample |-> 0, data |-> NoStats]

InitStats ==
    /\ \E n \in StatLengths :
        /\ stFile = IF n = 0 THEN StatsFile("absent", NoStats)
                    ELSE StatsFile("ok", StatHistory(n))
        /\ stHist = StatHistory(n)
        /\ stCtr = n
    /\ stCalls = 0
    /\ stDone = {}
    /\ stPc = [t \in StatIds |-> "idle"]
    /\ stLocal = [t \in StatIds |-> NoStatCall]

IdleStats ==
    /\ stFile = StatsFile("absent", NoStats)
    /\ stHist = NoStats
    /\ stCtr = 0
    /\ stCalls = 0
    /\ stDone = {}
    /\ stPc = [t \in StatIds |-> "idle"]
    /\ stLocal = [t \in StatIds |-> NoStatCall]

----------------------------------------------------------------------------
(* favorites_store.py: FavoritesStore._write, and app.py: the writes of      *)
(* transcript.json in media_transcribe_endpoint and                          *)
(* media_align_region_endpoint.  A file's text is the sequence of the chunks *)
(* written to it; the document of version v is DocChunks chunks marked v.    *)

DocChunks == 2
MaxFileWrites == 2

Doc(v) == [i \in 1..DocChunks |-> v]
Complete(text) == \E v \in 0..MaxFileWrites : text = Doc(v)

AbsentFile == [state |-> "absent", text |-> <<>>]
PresentFile(text) == [state |-> "present", text |-> text]

\* tmp = self.path.with_suffix(".tmp"); tmp.open("w"): the temporary file is
\* created empty, the favorites file is untouched
FavTmpOpen ==
    /\ fvPc = "idle"
    /\ fvVer < MaxFileWrites
    /\ fvVer' = fvVer + 1
    /\ fvTmp' = PresentFile(<<>>)
    /\ fvPc' = "writing"
    /\ UNCHANGED <<fvFile, txFile, txPc, txVer, fwSeen>>

\* json.dump writes the document to the temporary file chunk by chunk
FavTmpWrite ==
    /\ fvPc = "writing"
    /\ Len(fvTmp.text) < DocChunks
    /\ fvTmp' = PresentFile(Append(fvTmp.text, fvVer))
    /\ UNCHANGED <<fvFile, fvPc, fvVer, txFile, txPc, txVer, fwSeen>>

\* os.replace(tmp, self.path) after the with block closed the file
FavReplace ==
    /\ fvPc = "writing"
    /\ Len(fvTmp.text) = DocChunks
    /\ fvFile' = fvTmp
    /\ fvTmp' = AbsentFile
    /\ fvPc' = "idle"
    /\ UNCHANGED <<fvVer, txFile, txPc, txVer, fwSeen>>

\* open(tx_path, "w"): transcript.json itself is opened and emptied
TxOpen ==
    /\ txPc = "idle"
    /\ txVer < MaxFileWrites
    /\ txVer' = txVer + 1
    /\ txFile' = PresentFile(<<>>)
    /\ txPc' = "writing"
    /\ UNCHANGED <<fvFile, fvTmp, fvPc, fvVer, fwSeen>>

\* json.dump(transcript, f) writes chunk by chunk; the with block closes the
\* file after the last one
TxWrite ==
    /\ txPc = "writing"
    /\ txFile' = PresentFile(Append(txFile.text, txVer))
    /\ txPc' = IF Len(txFile.text) + 1 = DocChunks THEN "idle" ELSE "writing"
    /\ UNCHANGED <<fvFile, fvTmp, fvPc, fvVer, txVer, fwSeen>>

\* FavoritesStore._read in another request: the text of the favorites file
ReadFavorites ==
    /\ fwSeen' = fwSeen \cup {[file |-> "favorites", text |-> fvFile.text]}
    /\ UNCHANGED <<fvFile, fvTmp, fvPc, fvVer, txFile, txPc, txVer>>

\* tx_path.read_text() in media_align_endpoint, media_align_region_endpoint
\* or media_replace_preview_endpoint of another request
ReadTranscript ==
    /\ fwSeen' = fwSeen \cup {[file |-> "transcript", text |-> txFile.text]}
    /\ UNCHANGED <<fvFile, fvTmp, fvPc, fvVer, txFile, txPc, txVer>>

\* the store was constructed and a job was transcribed: both files hold
\* their first document
InitFiles ==
    /\ fvFile = PresentFile(Doc(0))
    /\ fvTmp = AbsentFile
    /\ fvPc = "idle"
    /\ fvVer = 0
    /\ txFile = PresentFile(Doc(0))
    /\ txPc = "idle"
    /\ txVer = 0
    /\ fwSeen = {}

IdleFiles == InitFiles

----------------------------------------------------------------------------
(* app.py: the generator _proxy of ollama_generate_proxy, ollama_chat_proxy  *)
(* and ollama_pull_proxy in streaming mode.  One action is one next() of the *)
(* generator by the server: the code up to the next yield, the return or the *)
(* exception.  An upstream line is a one-letter text or the blank line.      *)

MaxLines == 3

BlankLine == ""
UpstreamLines == {BlankLine, "a", "b"}
UpstreamBodies == UNION {[1..n -> UpstreamLines] : n \in 0..MaxLines}

\* what requests.post(url, stream=True) meets: no connection, a response
\* with an error status, a response with a success status
UpstreamAnswers == {"refused", "error", "ok"}

StartingFrame == <<"data", "starting">>
DataFrame(line) == <<"data", line>>

\* the lines of a body that are not blank, in order
RECURSIVE NonBlank(_)
NonBlank(lines) ==
    IF lines = <<>> THEN <<>>
    ELSE IF Head(lines) = BlankLine THEN NonBlank(Tail(lines))
    ELSE <<Head(lines)>> \o NonBlank(Tail(lines))

\* for line in r.iter_lines(): if not line: continue -- the lines left once
\* the blank ones at the front are passed over
RECURSIVE SkipBlank(_)
SkipBlank(lines) ==
    IF lines = <<>> THEN <<>>
    ELSE IF Head(lines) = BlankLine THEN SkipBlank(Tail(lines))
    ELSE lines

\* the loop of _proxy from the lines the upstream has still to send: the
\* next frame is yielded, or the upstream closed and the generator returns
ProxyRelay(lines) ==
    IF SkipBlank(lines) = <<>>
    THEN /\ pxPc' = "done"
         /\ pxEnd' = "upstream_closed"
         /\ pxLeft' = <<>>
         /\ UNCHANGED pxFrames
    ELSE /\ pxFrames' = Append(pxFrames, DataFrame(Head(SkipBlank(lines))))
         /\ pxLeft' = Tail(SkipBlank(lines))
         /\ pxPc' = "open"
         /\ UNCHANGED pxEnd

\* first next(): yield 'data: {"status":"starting"}\n\n'
ProxyStart ==
    /\ pxPc = "created"
    /\ pxFrames' = <<StartingFrame>>
    /\ pxPc' = "started"
    /\ UNCHANGED <<pxAnswer, pxBody, pxLeft, pxOpenAt, pxEnd>>

\* second next(): requests.post, raise_for_status, then the loop up to the
\* first frame
ProxyOpen ==
    /\ pxPc = "started"
    /\ pxOpenAt' = Len(pxFrames)
    /\ \E answer \in UpstreamAnswers, body \in UpstreamBodies :
        /\ pxAnswer' = answer
        /\ pxBody' = IF answer = "refused" THEN <<>> ELSE body
        /\ IF answer = "refused"
           THEN /\ pxPc' = "done"
                /\ pxEnd' = "connect_raised"
                /\ pxLeft' = <<>>
                /\ UNCHANGED pxFrames
           ELSE IF answer = "error"
           THEN /\ pxPc' = "done"
                /\ pxEnd' = "status_raised"
                /\ pxLeft' = body
                /\ UNCHANGED pxFrames
           ELSE ProxyRelay(body)

\* a later next(): the loop goes on to the next frame or to the end
ProxyNext ==
    /\ pxPc = "open"
    /\ ProxyRelay(pxLeft)
    /\ UNCHANGED <<pxAnswer, pxBody, pxOpenAt>>

\* the upstream connection breaks while iter_lines waits: it raises and the
\* with block closes the response
ProxyBroken ==
    /\ pxPc = "open"
    /\ pxLeft # <<>>
    /\ pxPc' = "done"
    /\ pxEnd' = "upstream_broke"
    /\ pxBody' = SubSeq(pxBody, 1, Len(pxBody) - Len(pxLeft))
    /\ pxLeft' = <<>>
    /\ UNCHANGED <<pxFrames, pxAnswer, pxOpenAt>>

\* the handler returned Response(_proxy()): the generator is created, none
\* of its code has run
InitProxy ==
    /\ pxPc = "created"
    /\ pxFrames = <<>>
    /\ pxAnswer = "none"
    /\ pxBody = <<>>
    /\ pxLeft = <<>>
    /\ pxOpenAt = 0
    /\ pxEnd = "none"

IdleProxy == InitProxy

----------------------------------------------------------------------------
(* app.py: the directory media_cache/youtube under the two endpoints that   *)
(* write it, /media/transcribe and /media/estimate, and the reaping loop of *)
(* _maybe_cleanup_media_artifacts that both run first.  Times are hours; a  *)
(* file is [name, ext, size, mtime] as in the ingest model.                 *)

MaxCacheReq == 3
MaxCacheClock == 400

CacheVids == {<<"a">>, <<"b">>}
MetaExt == ".json"

\* time passed since the request before
CacheWaits == {0, 100}

AudioFile(vid, now) == [name |-> vid, ext |-> ".m4a", size |-> AudioSize, mtime |-> now]
\* _youtube_meta_save: write_text makes or rewrites <vid>.info.json
MetaFile(vid, now) == [name |-> vid, ext |-> MetaExt, size |-> 3, mtime |-> now]
MetaSave(files, vid, now) ==
    {f \in files : ~(f.name = vid /\ f.ext = MetaExt)} \cup {MetaFile(vid, now)}

\* _youtube_meta_load(vid) returns something
MetaCached(files, vid) == \E f \in files : f.name = vid /\ f.ext = MetaExt

\* the input a transcribe request resolved: whether it came from the cache
\* without a download, and the file
CacheInput(hit, name, ext) == [hit |-> hit, name |-> name, ext |-> ext]
NoCacheInput == CacheInput(FALSE, <<>>, "")

\* the directory after the call of _maybe_cleanup_media_artifacts at time now
CacheAfterCleanup(files, last, now) ==
    IF CleanupDue(last, now) THEN Unexpired(files, now) ELSE files

\* what a request leaves behind, given the directory once its own writes
\* are done
CacheFinish(now, files) ==
    /\ ycClock' = now
    /\ ycLast' = IF CleanupDue(ycLast, now) THEN now ELSE ycLast
    /\ ycReaped' = ycFiles \ CacheAfterCleanup(ycFiles, ycLast, now)
    /\ ycKept' = CacheAfterCleanup(ycFiles, ycLast, now)
    /\ ycFiles' = files
    /\ ycCtr' = ycCtr + 1

\* media_transcribe_endpoint() with source 'youtube' and a URL of id vid:
\* the cleanup, the cache lookup, the download and the metadata sidecar
CacheTranscribe ==
    /\ ycCtr < MaxCacheReq
    /\ \E dt \in CacheWaits, vid \in CacheVids, downloaded \in BOOLEAN, info \in BOOLEAN :
        /\ ycClock + dt <= MaxCacheClock
        /\ \E now \in {ycClock + dt} :
            \E cache1 \in {CacheAfterCleanup(ycFiles, ycLast, now)} :
                IF CacheGlob(cache1, vid) # {}
                THEN /\ CacheFinish(now, cache1)
                     /\ \E cache_path \in LargestOf(CacheGlob(cache1, vid)) :
                            ycInput' = CacheInput(TRUE, cache_path.name, cache_path.ext)
                ELSE IF ~downloaded
                THEN CacheFinish(now, cache1) /\ ycInput' = NoCacheInput
                ELSE /\ ycInput' = CacheInput(FALSE, vid, AudioFile(vid, now).ext)
                     /\ IF info
                        THEN CacheFinish(now, MetaSave(cache1 \cup {AudioFile(vid, now)}, vid,
                                                       now))
                        ELSE CacheFinish(now, cache1 \cup {AudioFile(vid, now)})

\* media_estimate_endpoint() with source 'youtube' and a URL of id vid: the
\* cleanup, then the metadata is read from the cache or fetched and saved
CacheEstimate ==
    /\ ycCtr < MaxCacheReq
    /\ \E dt \in CacheWaits, vid \in CacheVids, info \in BOOLEAN :
        /\ ycClock + dt <= MaxCacheClock
        /\ \E now \in {ycClock + dt} :
            \E cache1 \in {CacheAfterCleanup(ycFiles, ycLast, now)} :
                /\ ycInput' = NoCacheInput
                /\ IF CacheGlob(cache1, vid) # {} /\ MetaCached(cache1, vid)
                   THEN CacheFinish(now, cache1)
                   ELSE IF info
                   THEN CacheFinish(now, MetaSave(cache1, vid, now))
                   ELSE CacheFinish(now, cache1)

\* the server has just started: empty cache, no cleanup yet
InitCache ==
    /\ ycFiles = {}
    /\ ycClock = 0
    /\ ycLast = NoTime
    /\ ycCtr = 0
    /\ ycReaped = {}
    /\ ycKept = {}
    /\ ycInput = NoCacheInput

IdleCache == InitCache

----------------------------------------------------------------------------
(* app.py: the voice catalogs of the bundled bank (load_voice_profiles and  *)
(* its module-level _cached_voices) and of the XTTS voice directory         *)
(* (get_xtts_voice_map) while their sources change on disk.                 *)

MaxCatalogOps == 4

\* the voices archive at VOICES_PATH: absent, or its keys in sorted order
NoArchive == [exists |-> FALSE, keys |-> <<>>]
Archive(keys) == [exists |-> TRUE, keys |-> keys]
Archives ==
    {NoArchive, Archive(<< <<"a", "f">> >>), Archive(<< <<"a", "f">>, <<"b", "m">> >>)}

\* the sorted listings of the XTTS voice directory
VoiceDirListings ==
    {<<>>, << <<"a", ".", "w", "a", "v">> >>,
     << <<"a", ".", "w", "a", "v">>, <<"c", ".", "m", "p", "3">> >>}

\* _cached_voices: None, or the list built by the first load
NoVoices == [loaded |-> FALSE, voices |-> <<>>]

\* the loop of load_voice_profiles over sorted(archive.files): a profile per
\* key, carried by its id
ArchiveProfiles(archive) == [i \in 1..Len(archive.keys) |-> archive.keys[i]]

\* load_voice_profiles(): [status, voices, cached]
load_voice_profiles(cached, archive) ==
    IF cached.loaded THEN [status |-> 200, voices |-> cached.voices, cached |-> cached]
    ELSE IF ~archive.exists THEN [status |-> 500, voices |-> <<>>, cached |-> cached]
    ELSE [status |-> 200, voices |-> ArchiveProfiles(archive),
          cached |-> [loaded |-> TRUE, voices |-> ArchiveProfiles(archive)]]

\* the ids of a voice map, in order
VoiceMapIds(m) == [i \in 1..Len(m) |-> m[i].id]

CatalogRecord(engine, status, ids, archive, listing) ==
    [engine |-> engine, status |-> status, ids |-> ids, archive |-> archive,
     listing |-> listing]

NoCatalog == CatalogRecord("none", 0, <<>>, NoArchive, <<>>)

\* the voices archive is replaced, removed or put in place
ChangeArchive ==
    /\ vcCtr < MaxCatalogOps
    /\ vcCtr' = vcCtr + 1
    /\ vcArchive' \in Archives \ {vcArchive}
    /\ UNCHANGED <<vcDir, vcCached, vcLast>>

\* voice files are added to or removed from the XTTS voice directory
ChangeVoiceDir ==
    /\ vcCtr < MaxCatalogOps
    /\ vcCtr' = vcCtr + 1
    /\ vcDir' \in VoiceDirListings \ {vcDir}
    /\ UNCHANGED <<vcArchive, vcCached, vcLast>>

\* a catalog read of the bundled bank: build_kokoro_voice_payload() calls
\* load_voice_profiles()
KokoroCatalog ==
    /\ vcCtr < MaxCatalogOps
    /\ vcCtr' = vcCtr + 1
    /\ \E res \in {load_voice_profiles(vcCached, vcArchive)} :
        /\ vcCached' = res.cached
        /\ vcLast' = CatalogRecord("kokoro", res.status, res.voices, vcArchive, vcDir)
    /\ UNCHANGED <<vcArchive, vcDir>>

\* a catalog read of XTTS: get_xtts_voice_map() lists the directory
XttsCatalog ==
    /\ vcCtr < MaxCatalogOps
    /\ vcCtr' = vcCtr + 1
    /\ vcLast' = CatalogRecord("xtts", 200, VoiceMapIds(VoiceMapFrom(vcDir, <<>>)),
                               vcArchive, vcDir)
    /\ UNCHANGED <<vcArchive, vcDir, vcCached>>

\* the process has started: nothing is loaded
InitCatalog ==
    /\ vcArchive \in Archives
    /\ vcDir \in VoiceDirListings
    /\ vcCached = NoVoices
    /\ vcLast = NoCatalog
    /\ vcCtr = 0

IdleCatalog ==
    /\ vcArchive = NoArchive
    /\ vcDir = <<>>
    /\ vcCached = NoVoices
    /\ vcLast = NoCatalog
    /\ vcCtr = 0

----------------------------------------------------------------------------
(* app.py: _alignment_diff_stats.  A word is [text, start, end, numeric];   *)
(* times are milliseconds, numeric is FALSE when float() of a time raises.  *)

TopMax == 10
LongPairs == 12

DiffWord(text, s, e) == [text |-> text, start |-> s, end |-> e, numeric |-> TRUE]
BadWord == [text |-> "a", start |-> 0, end |-> 0, numeric |-> FALSE]

AbsInt(x) == IF x < 0 THEN 0 - x ELSE x

\* _in_win(w)
in_win(w, ws, we) == w.numeric /\ w.end > ws /\ w.start < we

\* round() of num / den, ties to the even integer
RoundHalfEven(num, den) ==
    IF 2 * (num % den) < den THEN num \div den
    ELSE IF 2 * (num % den) > den THEN (num \div den) + 1
    ELSE IF (num \div den) % 2 = 0 THEN num \div den
    ELSE (num \div den) + 1

\* sorted(xs) of a list of numbers
SortAsc(xs) ==
    [k \in 1..Len(xs) |->
        xs[CHOOSE i \in 1..Len(xs) :
            Cardinality({j \in 1..Len(xs) : xs[j] < xs[i] \/ (xs[j] = xs[i] /\ j < i)}) + 1 = k]]

\* sorted(tops, key=abs(delta_ms), reverse=True): decreasing, equal keys in
\* their order of entry
SortTops(ts) ==
    [k \in 1..Len(ts) |->
        ts[CHOOSE i \in 1..Len(ts) :
            Cardinality({j \in 1..Len(ts) :
                AbsInt(ts[j].delta_ms) > AbsInt(ts[i].delta_ms)
                    \/ (AbsInt(ts[j].delta_ms) = AbsInt(ts[i].delta_ms) /\ j < i)}) + 1 = k]]

\* _pct(p) with p = pnum / 100
diff_pct(sorted, pnum) ==
    IF sorted = <<>> THEN 0
    ELSE sorted[Max(0, Min(Len(sorted) - 1,
                           RoundHalfEven(pnum * (Len(sorted) - 1), 100))) + 1]

RECURSIVE SumSeq(_)
SumSeq(xs) == IF xs = <<>> THEN 0 ELSE Head(xs) + SumSeq(Tail(xs))

\* one turn of the loop over a pair: skipped when float() raises
PairDs(p, q) == AbsInt(q.start - p.start)
PairDe(p, q) == AbsInt(q.end - p.end)
PairChosen(p, q) == IF PairDs(p, q) >= PairDe(p, q) THEN "start" ELSE "end"
PairDval(p, q) == IF PairChosen(p, q) = "start" THEN PairDs(p, q) ELSE PairDe(p, q)
PairTop(i, p, q) ==
    [idx |-> i - 1, text |-> q.text, boundary |-> PairChosen(p, q),
     delta_ms |-> IF PairChosen(p, q) = "start" THEN q.start - p.start ELSE q.end - p.end,
     direction |-> IF (IF PairChosen(p, q) = "start" THEN q.start - p.start
                       ELSE q.end - p.end) > 0 THEN "later" ELSE "earlier"]

\* the loop: abs_deltas, tops, changed and text_mismatch after the pairs
\* i..n
RECURSIVE DiffLoop(_, _, _, _, _)
DiffLoop(prev, new, i, n, acc) ==
    IF i > n THEN acc
    ELSE IF ~(prev[i].numeric /\ new[i].numeric) THEN DiffLoop(prev, new, i + 1, n, acc)
    ELSE DiffLoop(prev, new, i + 1, n,
            [abs_ms |-> Append(acc.abs_ms, PairDval(prev[i], new[i])),
             tops |-> IF prev[i].text = new[i].text
                      THEN Append(acc.tops, PairTop(i, prev[i], new[i])) ELSE acc.tops,
             changed |-> acc.changed + (IF PairDval(prev[i], new[i]) > 0 THEN 1 ELSE 0),
             text_mismatch |-> acc.text_mismatch
                                + (IF prev[i].text # new[i].text THEN 1 ELSE 0)])

DiffEmpty == [compared |-> 0, changed |-> 0, text_mismatch |-> 0, sum_abs_ms |-> 0,
              count_abs |-> 0, median_abs_ms |-> 0, p95_abs_ms |-> 0, max_abs_ms |-> 0,
              top |-> <<>>]

\* the result built from what the loop collected; the mean is the quotient
\* sum_abs_ms / count_abs
DiffResult(n, acc) ==
    [compared |-> n, changed |-> acc.changed, text_mismatch |-> acc.text_mismatch,
     sum_abs_ms |-> SumSeq(acc.abs_ms), count_abs |-> Len(acc.abs_ms),
     median_abs_ms |-> diff_pct(SortAsc(acc.abs_ms), 50),
     p95_abs_ms |-> diff_pct(SortAsc(acc.abs_ms), 95),
     max_abs_ms |-> IF acc.abs_ms = <<>> THEN 0 ELSE SortAsc(acc.abs_ms)[Len(acc.abs_ms)],
     top |-> Take(SortTops(acc.tops), TopMax)]

alignment_diff_pairs(prev, new) ==
    IF Min(Len(prev), Len(new)) = 0 THEN DiffEmpty
    ELSE DiffResult(Min(Len(prev), Len(new)),
                    DiffLoop(prev, new, 1, Min(Len(prev), Len(new)),
                             [abs_ms |-> <<>>, tops |-> <<>>, changed |-> 0,
                              text_mismatch |-> 0]))

\* _alignment_diff_stats(prev_words, new_words, window=(ws, we)); window is
\* <<>> for None
alignment_diff_stats(prev_words, new_words, window) ==
    IF window = <<>> THEN alignment_diff_pairs(prev_words, new_words)
    ELSE alignment_diff_pairs(
            SelectSeq(prev_words, LAMBDA w : in_win(w, window[1], window[2])),
            SelectSeq(new_words, LAMBDA w : in_win(w, window[1], window[2])))

\* words of the inputs: two texts, two starts, two lengths, and a word whose
\* times are not numbers
DiffWords ==
    {DiffWord(t, s, s + d) : t \in {"a", "b"}, s \in {0, 40}, d \in {10, 30}} \cup {BadWord}

ShortLists == UNION {[1..n -> DiffWords] : n \in 0..2}

\* a long transcript: word i starts at 100 * i, and the same words moved by
\* different amounts
LongPrev == [i \in 1..LongPairs |-> DiffWord("a", 100 * i, 100 * i + 50)]
LongNew == [i \in 1..LongPairs |-> DiffWord("a", 100 * i + ((i * 7) % 13), 100 * i + 50)]

DiffWindows == {<<>>, <<0, 45>>, <<20, 2000>>}

DiffInputs ==
    {[prev |-> p, new |-> q, window |-> w] : p \in ShortLists, q \in ShortLists,
                                              w \in {<<>>, <<0, 45>>}}
        \cup {[prev |-> LongPrev, new |-> LongNew, window |-> w] : w \in DiffWindows}

\* the diff of an align or align_region response
DiffStats ==
    /\ ~dfDone
    /\ dfDone' = TRUE
    /\ dfOut' = alignment_diff_stats(dfIn.prev, dfIn.new, dfIn.window)
    /\ UNCHANGED dfIn

InitDiff ==
    /\ dfIn \in DiffInputs
    /\ dfDone = FALSE
    /\ dfOut = DiffEmpty

IdleDiff ==
    /\ dfIn = [prev |-> <<>>, new |-> <<>>, window |-> <<>>]
    /\ dfDone = FALSE
    /\ dfOut = DiffEmpty

----------------------------------------------------------------------------
(* app.py: _chattts_synthesise run by several requests at once.  The        *)
(* subprocess writes output_audio_*.mp3 into CHATTT_ROOT under a name of    *)
(* its own choice; a file is [name, req, mtime], req being the request      *)
(* whose run wrote it.                                                      *)

ChatThreads == 2
MaxChatCalls == 3

ChatIds == 1..ChatThreads
\* the names output_audio_<n>.mp3 a run can write
ChatNames == {0, 1}

ChatFileNames(files) == {f.name : f \in files}

\* the file written over whatever had that name
ChatWrite(files, name, req, now) ==
    {f \in files : f.name # name} \cup {[name |-> name, req |-> req, mtime |-> now]}

\* generated_files: the files not in before_files, else every file, newest
\* first; the candidates for generated_files[0]
ChatCandidates(files, before) ==
    IF {f \in files : f.name \notin before} # {}
    THEN {f \in files : f.name \notin before}
    ELSE {f \in files : \A g \in files : g.mtime <= f.mtime}

NoChatCall == [req |-> 0, before |-> {}, wrote |-> FALSE]

\* a request enters _chattts_synthesise: before_files is taken
ChatSnapshot(t) ==
    /\ ctPc[t] = "idle"
    /\ ctCalls < MaxChatCalls
    /\ ctCalls' = ctCalls + 1
    /\ ctLocal' = [ctLocal EXCEPT ![t] =
            [req |-> ctCalls + 1, before |-> ChatFileNames(ctFiles), wrote |-> FALSE]]
    /\ ctPc' = [ctPc EXCEPT ![t] = "running"]
    /\ UNCHANGED <<ctFiles, ctClock, ctDone>>

\* subprocess.run returns: the run failed or timed out, or it exited zero
\* having written its file, or exited zero without one
ChatRun(t) ==
    /\ ctPc[t] = "running"
    /\ ctClock' = ctClock + 1
    /\ \E outcome \in {"failed", "wrote", "silent"} :
        IF outcome = "failed"
        THEN /\ ctDone' = ctDone \cup {[req |-> ctLocal[t].req, status |-> 500,
                                         got |-> 0, wrote |-> FALSE]}
             /\ ctPc' = [ctPc EXCEPT ![t] = "idle"]
             /\ UNCHANGED <<ctFiles, ctLocal>>
        ELSE IF outcome = "silent"
        THEN /\ ctPc' = [ctPc EXCEPT ![t] = "collect"]
             /\ UNCHANGED <<ctFiles, ctLocal, ctDone>>
        ELSE \E name \in ChatNames :
             /\ ctFiles' = ChatWrite(ctFiles, name, ctLocal[t].req, ctClock + 1)
             /\ ctLocal' = [ctLocal EXCEPT ![t].wrote = TRUE]
             /\ ctPc' = [ctPc EXCEPT ![t] = "collect"]
             /\ UNCHANGED ctDone
    /\ UNCHANGED ctCalls

\* the second glob, the choice of generated_files[0] and shutil.move
ChatCollect(t) ==
    /\ ctPc[t] = "collect"
    /\ IF ChatCandidates(ctFiles, ctLocal[t].before) = {}
       THEN /\ ctDone' = ctDone \cup {[req |-> ctLocal[t].req, status |-> 500, got |-> 0,
                                        wrote |-> ctLocal[t].wrote]}
            /\ UNCHANGED ctFiles
       ELSE \E f \in ChatCandidates(ctFiles, ctLocal[t].before) :
            /\ ctFiles' = ctFiles \ {f}
            /\ ctDone' = ctDone \cup {[req |-> ctLocal[t].req, status |-> 200,
                                        got |-> f.req, wrote |-> ctLocal[t].wrote]}
    /\ ctPc' = [ctPc EXCEPT ![t] = "idle"]
    /\ UNCHANGED <<ctLocal, ctClock, ctCalls>>

InitChatRace ==
    /\ ctFiles = {}
    /\ ctClock = 0
    /\ ctCalls = 0
    /\ ctPc = [t \in ChatIds |-> "idle"]
    /\ ctLocal = [t \in ChatIds |-> NoChatCall]
    /\ ctDone = {}

IdleChatRace == InitChatRace

----------------------------------------------------------------------------
(* app.py: audition_endpoint, render_announcer_segments and                 *)
(* concatenate_clips.  A clip is the sequence of its samples; gaps are      *)
(* given in half seconds and sample rates in samples per second.            *)

MaxAudition == 2
MaxVoices == 3

AuditionRates == {4, 6}
\* what _synthesise_clip_via_engine returns for a voice: it raises, or a clip
\* and its sample rate
ClipRuns ==
    {[ok |-> FALSE, len |-> 0, sr |-> 4]}
        \cup {[ok |-> TRUE, len |-> l, sr |-> r] : l \in {1, 2}, r \in AuditionRates}
\* gapSeconds of the request and of the announcer, in half seconds
GapInputs == {0 - 1, 0, 1, 2}
AnnouncerGapInputs == {0, 1}

Zeros(n) == [i \in 1..n |-> 0]
ClipOf(run, mark) == [i \in 1..run.len |-> mark]

\* no silence after the announcer clip
announcer_gap_none(ann_sr, gap_half) == <<>>

\* the gap of render_announcer_segments: np.zeros(int(ann_sr * gap_seconds))
\* when gap_seconds > 0
announcer_gap(ann_sr, gap_half) ==
    IF gap_half > 0 THEN Zeros(TruncDiv(ann_sr * gap_half, 2)) ELSE <<>>

\* render_announcer_segments(): the segments joined
render_announcer_segments(ann, gap_half) ==
    ClipOf(ann, 2) \o announcer_gap(ann.sr, gap_half)

\* concatenate_clips(clips, sample_rate, gap_seconds)
RECURSIVE JoinClips(_, _)
JoinClips(clips, gap) ==
    IF clips = <<>> THEN <<>>
    ELSE IF Len(clips) = 1 THEN clips[1]
    ELSE clips[1] \o gap \o JoinClips(Tail(clips), gap)

concatenate_clips(clips, sample_rate, gap_half) ==
    JoinClips(clips, Zeros(Max(TruncDiv(sample_rate * gap_half, 2), 0)))

\* the loop of audition_endpoint over the voices i..n: [status, rate, clips];
\* rate is 0 for None
RECURSIVE AuditionLoop(_, _, _, _, _, _, _)
AuditionLoop(i, runs, ann, enabled, ann_gap, rate, clips) ==
    IF i > Len(runs) THEN [status |-> 200, rate |-> rate, clips |-> clips]
    ELSE IF enabled /\ ~ann.ok THEN [status |-> 500, rate |-> rate, clips |-> clips]
    ELSE IF enabled /\ rate # 0 /\ rate # ann.sr
    THEN [status |-> 500, rate |-> rate, clips |-> clips]
    ELSE IF ~runs[i].ok THEN [status |-> 500, rate |-> rate, clips |-> clips]
    ELSE IF (IF enabled THEN ann.sr ELSE rate) # 0
            /\ (IF enabled THEN ann.sr ELSE rate) # runs[i].sr
    THEN [status |-> 500, rate |-> rate, clips |-> clips]
    ELSE AuditionLoop(i + 1, runs, ann, enabled, ann_gap, runs[i].sr,
            Append(clips, (IF enabled THEN render_announcer_segments(ann, ann_gap)
                           ELSE <<>>) \o ClipOf(runs[i], 1)))

\* what the model keeps of an audition request: the response status, the
\* number of voices, the announcer and gap settings, whether two voice clips
\* differed in sample rate, the rate of the result, the samples of the voice
\* clips and of the announcer clips, and the length of the combined clip
AuditionRecord(status, n, enabled, gap, ann_gap, mixed, rate, voiced, announced, length) ==
    [status |-> status, n |-> n, enabled |-> enabled, gap |-> gap, ann_gap |-> ann_gap,
     mixed |-> mixed, rate |-> rate, voiced |-> voiced, announced |-> announced,
     length |-> length]

\* every voice clip was synthesised and two of them differ in sample rate
MixedRates(runs) ==
    /\ \A i \in 1..Len(runs) : runs[i].ok
    /\ \E i, j \in 1..Len(runs) : runs[i].sr # runs[j].sr

NoAudition == AuditionRecord(0, 0, FALSE, 0, 0, FALSE, 0, 0, 0, 0)

RECURSIVE SumLen(_)
SumLen(runs) == IF runs = <<>> THEN 0 ELSE Head(runs).len + SumLen(Tail(runs))

\* audition_endpoint() for a list of voices whose clips come out as runs
Audition ==
    /\ auCtr < MaxAudition
    /\ auCtr' = auCtr + 1
    /\ \E n \in 1..MaxVoices, enabled \in BOOLEAN, gap \in GapInputs :
        \E runs \in [1..n -> ClipRuns], ann \in {r \in ClipRuns : enabled \/ (r.ok /\ r.len = 1 /\ r.sr = 4)},
           ann_gap \in {g \in AnnouncerGapInputs : enabled \/ g = 0} :
            IF n < 2
            THEN auLast' = AuditionRecord(400, n, enabled, gap, ann_gap, FALSE, 0, 0, 0, 0)
            ELSE \E res \in {AuditionLoop(1, runs, ann, enabled, ann_gap, 0, <<>>)} :
                IF res.status # 200
                THEN auLast' = AuditionRecord(res.status, n, enabled, gap, ann_gap,
                                                  MixedRates(runs), 0, 0, 0, 0)
                ELSE auLast' = AuditionRecord(200, n, enabled, gap, ann_gap, MixedRates(runs),
                                    res.rate,
                                    SumLen(runs), IF enabled THEN n * ann.len ELSE 0,
                                    Len(concatenate_clips(res.clips, res.rate, gap)))

InitAudition ==
    /\ auCtr = 0
    /\ auLast = NoAudition

IdleAudition == InitAudition

----------------------------------------------------------------------------
(* app.py: ChatTTS presets on disk, the module-level _chattts_voice_cache   *)
(* that build_chattts_voice_payload fills, and _chattts_prepare_payload     *)
(* that reads it.  Seeds are integers, NoSeed stands for None.              *)

MaxPresetOps == 4

NoSeed == 0 - 1
RandomSeeds == {100, 101}
PresetIds == {<<"p">>, <<"q">>}
PresetSpeakers == {<<"s">>, <<"t", ".", " ", "x">>}
PresetSeeds == {NoSeed, 7}

ChatPunctuation == {".", ",", ";", ":", "!", "\"", "'"}

\* s.strip(chars) for a set of characters
StripSet(s, chars) ==
    IF {i \in 1..Len(s) : s[i] \notin chars} = {} THEN <<>>
    ELSE SubSeq(s, CHOOSE i \in 1..Len(s) : s[i] \notin chars
                                            /\ \A j \in 1..(i - 1) : s[j] \in chars,
                   CHOOSE i \in 1..Len(s) : s[i] \notin chars
                                            /\ \A j \in (i + 1)..Len(s) : s[j] \in chars)

\* candidate.split()[0] of a text that does not start with a space
FirstToken(s) ==
    IF \E i \in 1..Len(s) : s[i] = " "
    THEN SubSeq(s, 1, (CHOOSE i \in 1..Len(s) : s[i] = " " /\ \A j \in 1..(i - 1) : s[j] # " ") - 1)
    ELSE s

\* _normalise_chattts_speaker(value); <<>> stands for None
normalise_chattts_speaker(value) ==
    IF StripCh(value, " ") = <<>> THEN <<>>
    ELSE StripSet(FirstToken(StripCh(value, " ")), ChatPunctuation)

\* f"chattts_preset_{preset_id}"
PresetVoiceId(preset_id) == <<"c", "p", "_">> \o preset_id
RandomVoiceId == <<"c", "r">>

\* the voice map build_chattts_voice_payload derives from the presets
ChatVoiceMap(presets) ==
    {[voice_id |-> RandomVoiceId, type |-> "random", speaker |-> <<>>, seed |-> NoSeed]}
        \cup {[voice_id |-> PresetVoiceId(p.id), type |-> "preset",
               speaker |-> normalise_chattts_speaker(p.speaker), seed |-> p.seed] :
                    p \in {q \in presets : normalise_chattts_speaker(q.speaker) # <<>>}}

\* _chattts_voice_cache.get(voice_identifier): the entries of that id
chattts_meta(cache, voice) == {m \in cache : m.voice_id = voice}

\* _chattts_prepare_payload(payload) with no 'speaker' and no 'seed' in the
\* payload: [voice_id, speaker, seed]
chattts_prepare(cache, voice, random) ==
    IF chattts_meta(cache, voice) = {}
    THEN [voice_id |-> voice, speaker |-> <<>>, seed |-> random]
    ELSE LET meta == CHOOSE m \in chattts_meta(cache, voice) : TRUE
         IN  [voice_id |-> voice, speaker |-> normalise_chattts_speaker(meta.speaker),
              seed |-> IF meta.seed # NoSeed THEN meta.seed ELSE random]

\* chattts_create_preset_endpoint() with an id of the request: 409 when the
\* preset exists, else the preset file is written
CreatePreset ==
    /\ cpCtr < MaxPresetOps
    /\ cpCtr' = cpCtr + 1
    /\ \E id \in PresetIds, speaker \in PresetSpeakers, seed \in PresetSeeds :
        IF \E p \in cpPresets : p.id = id
        THEN UNCHANGED cpPresets
        ELSE cpPresets' = cpPresets \cup {[id |-> id, speaker |-> StripCh(speaker, " "),
                                           seed |-> seed]}
    /\ UNCHANGED <<cpCache, cpLast>>

\* GET /voices?engine=chattts: build_chattts_voice_payload() refills the
\* cache
FetchChatVoices ==
    /\ cpCtr < MaxPresetOps
    /\ cpCtr' = cpCtr + 1
    /\ cpCache' = ChatVoiceMap(cpPresets)
    /\ UNCHANGED <<cpPresets, cpLast>>

\* POST /synthesise {engine: 'chattts', voice: ...}: the prepare hook
PrepareChat ==
    /\ cpCtr < MaxPresetOps
    /\ cpCtr' = cpCtr + 1
    /\ \E voice \in {PresetVoiceId(id) : id \in PresetIds} \cup {RandomVoiceId},
          random \in RandomSeeds :
        cpLast' = [prepared |-> TRUE, payload |-> chattts_prepare(cpCache, voice, random),
                   presets |-> cpPresets]
    /\ UNCHANGED <<cpPresets, cpCache>>

NoPrepared ==
    [prepared |-> FALSE,
     payload |-> [voice_id |-> <<>>, speaker |-> <<>>, seed |-> NoSeed], presets |-> {}]

\* the process has started: presets of earlier runs may lie on disk, the
\* cache is empty
InitPresets ==
    /\ cpPresets \in {{}, {[id |-> <<"p">>, speaker |-> <<"s">>, seed |-> 7]}}
    /\ cpCache = {}
    /\ cpLast = NoPrepared
    /\ cpCtr = 0

IdlePresets ==
    /\ cpPresets = {}
    /\ cpCache = {}
    /\ cpLast = NoPrepared
    /\ cpCtr = 0

----------------------------------------------------------------------------
(* app.py: media_replace_preview_endpoint and media_apply_endpoint, the     *)
(* audio that the files of one job hold over several previews.  Each      *)
(* preview is spliced into source.wav, written to preview-<ts>.wav, and     *)
(* latest_preview.wav is pointed at it; the update of latest_preview.wav    *)
(* runs inside `try: ... except Exception: pass`.                           *)

MaxPreviews == 3
MaxLatestClock == 2

\* source.wav of the job, as _load_wav_mono returns it
LatestSource == <<40, 100, 40, 0, 40, 100>>

LatestReps == {<<20>>, <<300>>}
LatestRegions == {<<0, 1>>, <<2, 3>>, <<5, 6>>}

LatestRequests == [rep : LatestReps, region : LatestRegions, fade_ms : FadeInputs]

\* preview = _apply_replace_with_crossfade(src, rep_stretched, sr, i0, i1, ...)
PreviewAudio(src, req) ==
    apply_replace_with_crossfade(src, req.rep, req.region[1], req.region[2],
                                 req.fade_ms, 0, req.region[2] - req.region[1])

NoLatest == [kind |-> "absent", ts |-> 0, audio |-> <<>>]
LinkTo(ts) == [kind |-> "link", ts |-> ts, audio |-> <<>>]
PlainFile(audio) == [kind |-> "file", ts |-> 0, audio |-> audio]

\* the audio a reader of latest_preview.wav gets, following the symlink
ReadLatest(latest, pfiles) ==
    IF latest.kind = "link" THEN pfiles[latest.ts] ELSE latest.audio

\* if latest.exists() or latest.is_symlink(): try: latest.unlink() except OSError: pass
AfterUnlink(latest, unlink_ok) ==
    IF latest.kind # "absent" /\ unlink_ok THEN NoLatest ELSE latest

\* try: latest.symlink_to(preview_path)
\* except Exception: sf.write(latest, preview, sr)
\* and around both: except Exception: pass.  A write through a link that could
\* not be removed lands in the file the link names.
UpdateLatest(latest, pfiles, ts, preview, unlink_ok, symlink_ok, write_ok) ==
    LET l1 == AfterUnlink(latest, unlink_ok)
    IN  IF l1.kind = "absent" /\ symlink_ok
        THEN [latest |-> LinkTo(ts), pfiles |-> pfiles, updated |-> TRUE]
        ELSE IF ~write_ok
        THEN [latest |-> l1, pfiles |-> pfiles, updated |-> FALSE]
        ELSE IF l1.kind = "link"
        THEN [latest |-> l1, pfiles |-> [pfiles EXCEPT ![l1.ts] = preview],
              updated |-> TRUE]
        ELSE [latest |-> PlainFile(preview), pfiles |-> pfiles, updated |-> TRUE]

NoPreviewCall == [status |-> 0, req |-> [rep |-> <<>>, region |-> <<0, 0>>, fade_ms |-> 0],
                  updated |-> FALSE]

\* POST /media/replace_preview on the job, at second ts = int(time.time())
ReplaceLatest ==
    /\ lpCtr < MaxPreviews
    /\ \E req \in LatestRequests, tick \in {0, 1}, unlink_ok \in BOOLEAN,
          symlink_ok \in BOOLEAN, write_ok \in BOOLEAN :
        LET ts == lpClock + tick
            r == PreviewAudio(LatestSource, req)
        IN  /\ ts <= MaxLatestClock
            /\ lpClock' = ts
            /\ lpCtr' = lpCtr + 1
            /\ IF r.err
               THEN /\ lpLast' = [status |-> 500, req |-> req, updated |-> FALSE]
                    /\ UNCHANGED <<lpPreviews, lpLatest>>
               ELSE \E u \in {UpdateLatest(lpLatest, [lpPreviews EXCEPT ![ts] = r.out],
                                           ts, r.out, unlink_ok, symlink_ok, write_ok)} :
                    /\ lpPreviews' = u.pfiles
                    /\ lpLatest' = u.latest
                    /\ lpLast' = [status |-> 200, req |-> req, updated |-> u.updated]
    /\ UNCHANGED lpFinal

NoFinal == [status |-> 0, audio |-> <<>>, at |-> 0]

\* POST /media/apply on the job: 400 without latest_preview.wav, else the
\* audio of latest_preview.wav becomes final.wav (or the muxed audio track)
ApplyLatest ==
    /\ lpCtr > 0
    /\ lpFinal.at # lpCtr
    /\ lpFinal' = IF lpLatest.kind = "absent"
                  THEN [status |-> 400, audio |-> <<>>, at |-> lpCtr]
                  ELSE [status |-> 200, audio |-> ReadLatest(lpLatest, lpPreviews),
                        at |-> lpCtr]
    /\ UNCHANGED <<lpClock, lpPreviews, lpLatest, lpLast, lpCtr>>

InitLatest ==
    /\ lpClock = 0
    /\ lpPreviews = [t \in 0..MaxLatestClock |-> <<>>]
    /\ lpLatest = NoLatest
    /\ lpLast = NoPreviewCall
    /\ lpFinal = NoFinal
    /\ lpCtr = 0

IdleLatest == InitLatest
----------------------------------------------------------------------------
(* app.py: xtts_custom_voice_endpoint over the XTTS voice directory.  The   *)
(* directory is a set of file names; the voice map is get_xtts_voice_map    *)
(* over its sorted listing.                                                 *)

MaxCustom == 2

\* the characters of the names below, in code point order
CodePoints == <<" ", ".", "2", "3", "_", "a", "b", "c", "e", "j", "m", "n", "o",
                "p", "s", "t", "v", "w">>

CharRank(ch) == CHOOSE i \in 1..Len(CodePoints) : CodePoints[i] = ch

\* a < b for two names, as sorted() compares paths of one directory
RECURSIVE NameLess(_, _)
NameLess(a, b) ==
    IF a = <<>> THEN b # <<>>
    ELSE IF b = <<>> THEN FALSE
    ELSE IF Head(a) = Head(b) THEN NameLess(Tail(a), Tail(b))
    ELSE CharRank(Head(a)) < CharRank(Head(b))

\* sorted(voice_dir.iterdir())
RECURSIVE SortedNames(_)
SortedNames(names) ==
    IF names = {} THEN <<>>
    ELSE LET first == CHOOSE x \in names : \A y \in names \ {x} : NameLess(x, y)
         IN  <<first>> \o SortedNames(names \ {first})

SidecarExt == <<".", "m", "e", "t", "a", ".", "j", "s", "o", "n">>

\* path.with_suffix('.meta.json'), on the name
SidecarOf(name) == PathStem(name) \o SidecarExt

\* files a voice directory may hold before the request
PriorFiles ==
    {<<"a", ".", "m", "p", "3">>, <<"a", ".", "w", "a", "v">>,
     <<"a", " ", "b", ".", "w", "a", "v">>, <<"a">> \o SidecarExt}

CustomLabels == {<<"a">>, <<"a", " ", "b">>, <<"a", "_", "b">>, <<"c">>}

\* _unique_xtts_filename(slug, ".wav"): the while loop from i
RECURSIVE UniqueLoop(_, _, _)
UniqueLoop(slug, dir, i) ==
    LET alt == slug \o <<"_">> \o Dec(i) \o WavExt
    IN  IF alt \notin dir THEN alt ELSE UniqueLoop(slug, dir, i + 1)

unique_xtts_filename(slug, dir) ==
    IF (slug \o WavExt) \notin dir THEN slug \o WavExt ELSE UniqueLoop(slug, dir, 2)

\* the voices of a directory, as get_xtts_voice_map lists them
VoiceMapOf(dir) == VoiceMapItems(VoiceMapFrom(SortedNames(dir), <<>>))

\* the file names that are voices of the directory
VoiceFiles(dir) == {e.path[Len(e.path)] : e \in VoiceMapOf(dir)}

NoCustom == [status |-> 0, voice_id |-> <<>>, out |-> <<>>, sidecar |-> <<>>,
             wrote_sidecar |-> FALSE, before |-> {}]

\* POST /xtts/custom_voice with a label; dur_ok is the duration check on the
\* normalised clip, sidecar_ok whether the sidecar could be written
CreateCustomVoice ==
    /\ cvCtr < MaxCustom
    /\ \E label \in CustomLabels, dur_ok \in BOOLEAN, sidecar_ok \in BOOLEAN :
        LET slug == slugify_voice_id(label)
            out_path == unique_xtts_filename(slug, cvDir)
            voice_id == slugify_voice_id(PathStem(out_path))
            sidecar_path == SidecarOf(out_path)
        IN  IF ~dur_ok
            THEN /\ cvLast' = [NoCustom EXCEPT !.status = 400, !.before = cvDir]
                 /\ UNCHANGED cvDir
            ELSE /\ cvDir' = cvDir \cup {out_path}
                                   \cup (IF sidecar_ok THEN {sidecar_path} ELSE {})
                 /\ cvLast' = [status |-> 200, voice_id |-> voice_id, out |-> out_path,
                               sidecar |-> sidecar_path, wrote_sidecar |-> sidecar_ok,
                               before |-> cvDir]
    /\ cvCtr' = cvCtr + 1

InitCustom ==
    /\ cvDir \in SUBSET PriorFiles
    /\ cvLast = NoCustom
    /\ cvCtr = 0

IdleCustom ==
    /\ cvDir = {}
    /\ cvLast = NoCustom
    /\ cvCtr = 0
----------------------------------------------------------------------------
(* app.py: _preview_path over pairs of cache keys.  The voice id and the    *)
(* language are the strings of the request; the generators of Kokoro, XTTS  *)
(* and ChatTTS look the path up before anything validates the voice.        *)

KeyVoices == {<<"a">>, <<"a", "-", "e">>, <<"b">>}

\* languages of a request: none, "e-u", "u", " E-U"
KeyLanguages == {<<>>, <<"e", "-", "u">>, <<"u">>, <<" ", "E", "-", "U">>}

\* the fallback each generator passes to _preview_language_key
KeyFallback(engine) == IF engine = "kokoro" THEN LangEnUs ELSE LangDefault

\* (engine, voice_id, language_key) of a request
KeyTriple(engine, voice_id, language) ==
    [engine |-> engine, voice_id |-> voice_id,
     language_key |-> preview_language_key(language, KeyFallback(engine))]

KeyInputs == [engine : PREVIEW_GENERATORS, voice_id : KeyVoices, language : KeyLanguages]

NoPaths == [done |-> FALSE, first |-> <<>>, second |-> <<>>]

\* _preview_path on the two keys
PreviewPaths ==
    /\ ~pkOut.done
    /\ pkOut' = [done |-> TRUE,
                 first |-> preview_path(pkIn[1].engine, pkIn[1].voice_id,
                              KeyTriple(pkIn[1].engine, pkIn[1].voice_id,
                                        pkIn[1].language).language_key),
                 second |-> preview_path(pkIn[2].engine, pkIn[2].voice_id,
                              KeyTriple(pkIn[2].engine, pkIn[2].voice_id,
                                        pkIn[2].language).language_key)]
    /\ UNCHANGED pkIn

InitKeys ==
    /\ pkIn \in KeyInputs \X KeyInputs
    /\ pkOut = NoPaths

IdleKeys ==
    /\ pkIn = <<>>
    /\ pkOut = NoPaths
----------------------------------------------------------------------------
(* Specifications: one per subsystem, the other subsystems at rest.  The    *)
(* replace route of SpecReplace runs the XTTS engine, so it moves the       *)
(* synthesis state as well.                                                 *)

vars ==
    <<favVars, spVars, synVars, ingVars, alVars, rpVars, pvVars, engVars,
    clVars, ttsVars, stVars, fwVars, pxVars, ycVars, vcVars, dfVars, ctVars,
    auVars, cpVars, lpVars, cvVars, pkVars>>

IdleFav == InitFav

StartFav ==
    InitFav /\ IdleSplice /\ IdleSynth /\ IdleIngest /\ IdleAlign /\
    IdleReplace /\ IdlePreview /\ IdleEngines /\ IdleCleanup /\ IdleTts /\
    IdleStats /\ IdleFiles /\ IdleProxy /\ IdleCache /\ IdleCatalog /\
    IdleDiff /\ IdleChatRace /\ IdleAudition /\ IdlePresets /\ IdleLatest /\
    IdleCustom /\ IdleKeys

NextFav ==
    \/ Create /\ UNCHANGED <<spVars, synVars, ingVars, alVars, rpVars, pvVars, engVars,
                   clVars, ttsVars, stVars, fwVars, pxVars, ycVars, vcVars,
                   dfVars, ctVars, auVars, cpVars, lpVars, cvVars, pkVars>>
    \/ Update /\ UNCHANGED <<spVars, synVars, ingVars, alVars, rpVars, pvVars, engVars,
                   clVars, ttsVars, stVars, fwVars, pxVars, ycVars, vcVars,
                   dfVars, ctVars, auVars, cpVars, lpVars, cvVars, pkVars>>
    \/ Delete /\ UNCHANGED <<spVars, synVars, ingVars, alVars, rpVars, pvVars, engVars,
                   clVars, ttsVars, stVars, fwVars, pxVars, ycVars, vcVars,
                   dfVars, ctVars, auVars, cpVars, lpVars, cvVars, pkVars>>
    \/ Import /\ UNCHANGED <<spVars, synVars, ingVars, alVars, rpVars, pvVars, engVars,
                   clVars, ttsVars, stVars, fwVars, pxVars, ycVars, vcVars,
                   dfVars, ctVars, auVars, cpVars, lpVars, cvVars, pkVars>>

SpecFav == StartFav /\ [][NextFav]_vars

StartSplice ==
    InitSplice /\ IdleFav /\ IdleSynth /\ IdleIngest /\ IdleAlign /\
    IdleReplace /\ IdlePreview /\ IdleEngines /\ IdleCleanup /\ IdleTts /\
    IdleStats /\ IdleFiles /\ IdleProxy /\ IdleCache /\ IdleCatalog /\
    IdleDiff /\ IdleChatRace /\ IdleAudition /\ IdlePresets /\ IdleLatest /\
    IdleCustom /\ IdleKeys

NextSplice ==
    \/ Splice /\ UNCHANGED <<favVars, synVars, ingVars, alVars, rpVars, pvVars,
                   engVars, clVars, ttsVars, stVars, fwVars, pxVars, ycVars,
                   vcVars, dfVars, ctVars, auVars, cpVars, lpVars, cvVars,
                   pkVars>>

SpecSplice == StartSplice /\ [][NextSplice]_vars

StartSynth ==
    InitSynth /\ IdleFav /\ IdleSplice /\ IdleIngest /\ IdleAlign /\
    IdleReplace /\ IdlePreview /\ IdleEngines /\ IdleCleanup /\ IdleTts /\
    IdleStats /\ IdleFiles /\ IdleProxy /\ IdleCache /\ IdleCatalog /\
    IdleDiff /\ IdleChatRace /\ IdleAudition /\ IdlePresets /\ IdleLatest /\
    IdleCustom /\ IdleKeys

NextSynth ==
    \/ Synthesise /\ UNCHANGED <<favVars, spVars, ingVars, alVars, rpVars, pvVars, engVars,
                   clVars, ttsVars, stVars, fwVars, pxVars, ycVars, vcVars,
                   dfVars, ctVars, auVars, cpVars, lpVars, cvVars, pkVars>>
    \/ VoicePreview /\ UNCHANGED <<favVars, spVars, ingVars, alVars, rpVars, pvVars, engVars,
                   clVars, ttsVars, stVars, fwVars, pxVars, ycVars, vcVars,
                   dfVars, ctVars, auVars, cpVars, lpVars, cvVars, pkVars>>

SpecSynth == StartSynth /\ [][NextSynth]_vars

StartIngest ==
    InitIngest /\ IdleFav /\ IdleSplice /\ IdleSynth /\ IdleAlign /\
    IdleReplace /\ IdlePreview /\ IdleEngines /\ IdleCleanup /\ IdleTts /\
    IdleStats /\ IdleFiles /\ IdleProxy /\ IdleCache /\ IdleCatalog /\
    IdleDiff /\ IdleChatRace /\ IdleAudition /\ IdlePresets /\ IdleLatest /\
    IdleCustom /\ IdleKeys

NextIngest ==
    \/ Transcribe /\ UNCHANGED <<favVars, spVars, synVars, alVars, rpVars, pvVars, engVars,
                   clVars, ttsVars, stVars, fwVars, pxVars, ycVars, vcVars,
                   dfVars, ctVars, auVars, cpVars, lpVars, cvVars, pkVars>>

SpecIngest == StartIngest /\ [][NextIngest]_vars

StartAlign ==
    InitAlign /\ IdleFav /\ IdleSplice /\ IdleSynth /\ IdleIngest /\
    IdleReplace /\ IdlePreview /\ IdleEngines /\ IdleCleanup /\ IdleTts /\
    IdleStats /\ IdleFiles /\ IdleProxy /\ IdleCache /\ IdleCatalog /\
    IdleDiff /\ IdleChatRace /\ IdleAudition /\ IdlePresets /\ IdleLatest /\
    IdleCustom /\ IdleKeys

NextAlign ==
    \/ AlignRegion /\ UNCHANGED <<favVars, spVars, synVars, ingVars, rpVars, pvVars,
                   engVars, clVars, ttsVars, stVars, fwVars, pxVars, ycVars,
                   vcVars, dfVars, ctVars, auVars, cpVars, lpVars, cvVars,
                   pkVars>>

SpecAlign == StartAlign /\ [][NextAlign]_vars

StartReplace ==
    InitReplace /\ IdleFav /\ IdleSplice /\ IdleSynth /\ IdleIngest /\
    IdleAlign /\ IdlePreview /\ IdleEngines /\ IdleCleanup /\ IdleTts /\
    IdleStats /\ IdleFiles /\ IdleProxy /\ IdleCache /\ IdleCatalog /\
    IdleDiff /\ IdleChatRace /\ IdleAudition /\ IdlePresets /\ IdleLatest /\
    IdleCustom /\ IdleKeys

NextReplace ==
    \/ ReplacePreview /\ UNCHANGED <<favVars, spVars, ingVars, alVars, pvVars, engVars, clVars,
                   ttsVars, stVars, fwVars, pxVars, ycVars, vcVars, dfVars,
                   ctVars, auVars, cpVars, lpVars, cvVars, pkVars>>
    \/ Apply /\ UNCHANGED <<favVars, spVars, ingVars, alVars, pvVars, engVars, clVars,
                   ttsVars, stVars, fwVars, pxVars, ycVars, vcVars, dfVars,
                   ctVars, auVars, cpVars, lpVars, cvVars, pkVars>>

SpecReplace == StartReplace /\ [][NextReplace]_vars

StartPreview ==
    InitPreview /\ IdleFav /\ IdleSplice /\ IdleSynth /\ IdleIngest /\
    IdleAlign /\ IdleReplace /\ IdleEngines /\ IdleCleanup /\ IdleTts /\
    IdleStats /\ IdleFiles /\ IdleProxy /\ IdleCache /\ IdleCatalog /\
    IdleDiff /\ IdleChatRace /\ IdleAudition /\ IdlePresets /\ IdleLatest /\
    IdleCustom /\ IdleKeys

NextPreview ==
    \/ GetOrCreatePreview /\ UNCHANGED <<favVars, spVars, ingVars, alVars, rpVars, engVars, clVars,
                   ttsVars, stVars, fwVars, pxVars, ycVars, vcVars, dfVars,
                   ctVars, auVars, cpVars, lpVars, cvVars, pkVars>>

SpecPreview == StartPreview /\ [][NextPreview]_vars

StartEngines ==
    InitEngines /\ IdleFav /\ IdleSplice /\ InitSynth /\ IdleIngest /\
    IdleAlign /\ IdleReplace /\ IdlePreview /\ IdleCleanup /\ IdleTts /\
    IdleStats /\ IdleFiles /\ IdleProxy /\ IdleCache /\ IdleCatalog /\
    IdleDiff /\ IdleChatRace /\ IdleAudition /\ IdlePresets /\ IdleLatest /\
    IdleCustom /\ IdleKeys

NextEngines ==
    \/ ChangeEngineFiles /\ UNCHANGED <<favVars, spVars, ingVars, alVars, rpVars, pvVars, clVars,
                   ttsVars, stVars, fwVars, pxVars, ycVars, vcVars, dfVars,
                   ctVars, auVars, cpVars, lpVars, cvVars, pkVars>>
    \/ SynthesiseRequest /\ UNCHANGED <<favVars, spVars, ingVars, alVars, rpVars, pvVars, clVars,
                   ttsVars, stVars, fwVars, pxVars, ycVars, vcVars, dfVars,
                   ctVars, auVars, cpVars, lpVars, cvVars, pkVars>>
    \/ ListRequest /\ UNCHANGED <<favVars, spVars, ingVars, alVars, rpVars, pvVars, clVars,
                   ttsVars, stVars, fwVars, pxVars, ycVars, vcVars, dfVars,
                   ctVars, auVars, cpVars, lpVars, cvVars, pkVars>>

SpecEngines == StartEngines /\ [][NextEngines]_vars

StartCleanup ==
    InitCleanup /\ IdleFav /\ IdleSplice /\ IdleSynth /\ IdleIngest /\
    IdleAlign /\ IdleReplace /\ IdlePreview /\ IdleEngines /\ IdleTts /\
    IdleStats /\ IdleFiles /\ IdleProxy /\ IdleCache /\ IdleCatalog /\
    IdleDiff /\ IdleChatRace /\ IdleAudition /\ IdlePresets /\ IdleLatest /\
    IdleCustom /\ IdleKeys

NextCleanup ==
    \/ (\E t \in CleanIds : CleanEnter(t)) /\ UNCHANGED <<favVars, spVars, synVars, ingVars, alVars, rpVars, pvVars,
                   engVars, ttsVars, stVars, fwVars, pxVars, ycVars, vcVars,
                   dfVars, ctVars, auVars, cpVars, lpVars, cvVars, pkVars>>
    \/ (\E t \in CleanIds : CleanAcquire(t)) /\ UNCHANGED <<favVars, spVars, synVars, ingVars, alVars, rpVars, pvVars,
                   engVars, ttsVars, stVars, fwVars, pxVars, ycVars, vcVars,
                   dfVars, ctVars, auVars, cpVars, lpVars, cvVars, pkVars>>
    \/ (\E t \in CleanIds : CleanGate(t)) /\ UNCHANGED <<favVars, spVars, synVars, ingVars, alVars, rpVars, pvVars,
                   engVars, ttsVars, stVars, fwVars, pxVars, ycVars, vcVars,
                   dfVars, ctVars, auVars, cpVars, lpVars, cvVars, pkVars>>
    \/ (\E t \in CleanIds : CleanReap(t)) /\ UNCHANGED <<favVars, spVars, synVars, ingVars, alVars, rpVars, pvVars,
                   engVars, ttsVars, stVars, fwVars, pxVars, ycVars, vcVars,
                   dfVars, ctVars, auVars, cpVars, lpVars, cvVars, pkVars>>
    \/ CleanTick /\ UNCHANGED <<favVars, spVars, synVars, ingVars, alVars, rpVars, pvVars,
                   engVars, ttsVars, stVars, fwVars, pxVars, ycVars, vcVars,
                   dfVars, ctVars, auVars, cpVars, lpVars, cvVars, pkVars>>

SpecCleanup == StartCleanup /\ [][NextCleanup]_vars

StartTts ==
    InitTts /\ IdleFav /\ IdleSplice /\ IdleSynth /\ IdleIngest /\
    IdleAlign /\ IdleReplace /\ IdlePreview /\ IdleEngines /\ IdleCleanup /\
    IdleStats /\ IdleFiles /\ IdleProxy /\ IdleCache /\ IdleCatalog /\
    IdleDiff /\ IdleChatRace /\ IdleAudition /\ IdlePresets /\ IdleLatest /\
    IdleCustom /\ IdleKeys

NextTts ==
    \/ (\E t \in TtsIds : TtsCheck(t)) /\ UNCHANGED <<favVars, spVars, synVars, ingVars, alVars, rpVars, pvVars,
                   engVars, clVars, stVars, fwVars, pxVars, ycVars, vcVars,
                   dfVars, ctVars, auVars, cpVars, lpVars, cvVars, pkVars>>
    \/ (\E t \in TtsIds : TtsAcquire(t)) /\ UNCHANGED <<favVars, spVars, synVars, ingVars, alVars, rpVars, pvVars,
                   engVars, clVars, stVars, fwVars, pxVars, ycVars, vcVars,
                   dfVars, ctVars, auVars, cpVars, lpVars, cvVars, pkVars>>
    \/ (\E t \in TtsIds : TtsInit(t)) /\ UNCHANGED <<favVars, spVars, synVars, ingVars, alVars, rpVars, pvVars,
                   engVars, clVars, stVars, fwVars, pxVars, ycVars, vcVars,
                   dfVars, ctVars, auVars, cpVars, lpVars, cvVars, pkVars>>
    \/ (\E t \in TtsIds : TtsReturn(t)) /\ UNCHANGED <<favVars, spVars, synVars, ingVars, alVars, rpVars, pvVars,
                   engVars, clVars, stVars, fwVars, pxVars, ycVars, vcVars,
                   dfVars, ctVars, auVars, cpVars, lpVars, cvVars, pkVars>>
    \/ TtsInstall /\ UNCHANGED <<favVars, spVars, synVars, ingVars, alVars, rpVars, pvVars,
                   engVars, clVars, stVars, fwVars, pxVars, ycVars, vcVars,
                   dfVars, ctVars, auVars, cpVars, lpVars, cvVars, pkVars>>

SpecTts == StartTts /\ [][NextTts]_vars

StartStats ==
    InitStats /\ IdleFav /\ IdleSplice /\ IdleSynth /\ IdleIngest /\
    IdleAlign /\ IdleReplace /\ IdlePreview /\ IdleEngines /\ IdleCleanup /\
    IdleTts /\ IdleFiles /\ IdleProxy /\ IdleCache /\ IdleCatalog /\
    IdleDiff /\ IdleChatRace /\ IdleAudition /\ IdlePresets /\ IdleLatest /\
    IdleCustom /\ IdleKeys

NextStats ==
    \/ RecordStat /\ UNCHANGED <<favVars, spVars, synVars, ingVars, alVars, rpVars, pvVars,
                   engVars, clVars, ttsVars, fwVars, pxVars, ycVars, vcVars,
                   dfVars, ctVars, auVars, cpVars, lpVars, cvVars, pkVars>>

SpecStats == StartStats /\ [][NextStats]_vars

StartStatsRace ==
    InitStats /\ IdleFav /\ IdleSplice /\ IdleSynth /\ IdleIngest /\
    IdleAlign /\ IdleReplace /\ IdlePreview /\ IdleEngines /\ IdleCleanup /\
    IdleTts /\ IdleFiles /\ IdleProxy /\ IdleCache /\ IdleCatalog /\
    IdleDiff /\ IdleChatRace /\ IdleAudition /\ IdlePresets /\ IdleLatest /\
    IdleCustom /\ IdleKeys

NextStatsRace ==
    \/ (\E t \in StatIds : StatRead(t)) /\ UNCHANGED <<favVars, spVars, synVars, ingVars, alVars, rpVars, pvVars,
                   engVars, clVars, ttsVars, fwVars, pxVars, ycVars, vcVars,
                   dfVars, ctVars, auVars, cpVars, lpVars, cvVars, pkVars>>
    \/ (\E t \in StatIds : StatOpen(t)) /\ UNCHANGED <<favVars, spVars, synVars, ingVars, alVars, rpVars, pvVars,
                   engVars, clVars, ttsVars, fwVars, pxVars, ycVars, vcVars,
                   dfVars, ctVars, auVars, cpVars, lpVars, cvVars, pkVars>>
    \/ (\E t \in StatIds : StatWrite(t)) /\ UNCHANGED <<favVars, spVars, synVars, ingVars, alVars, rpVars, pvVars,
                   engVars, clVars, ttsVars, fwVars, pxVars, ycVars, vcVars,
                   dfVars, ctVars, auVars, cpVars, lpVars, cvVars, pkVars>>

SpecStatsRace == StartStatsRace /\ [][NextStatsRace]_vars

StartFiles ==
    InitFiles /\ IdleFav /\ IdleSplice /\ IdleSynth /\ IdleIngest /\
    IdleAlign /\ IdleReplace /\ IdlePreview /\ IdleEngines /\ IdleCleanup /\
    IdleTts /\ IdleStats /\ IdleProxy /\ IdleCache /\ IdleCatalog /\
    IdleDiff /\ IdleChatRace /\ IdleAudition /\ IdlePresets /\ IdleLatest /\
    IdleCustom /\ IdleKeys

NextFiles ==
    \/ FavTmpOpen /\ UNCHANGED <<favVars, spVars, synVars, ingVars, alVars, rpVars, pvVars,
                   engVars, clVars, ttsVars, stVars, pxVars, ycVars, vcVars,
                   dfVars, ctVars, auVars, cpVars, lpVars, cvVars, pkVars>>
    \/ FavTmpWrite /\ UNCHANGED <<favVars, spVars, synVars, ingVars, alVars, rpVars, pvVars,
                   engVars, clVars, ttsVars, stVars, pxVars, ycVars, vcVars,
                   dfVars, ctVars, auVars, cpVars, lpVars, cvVars, pkVars>>
    \/ FavReplace /\ UNCHANGED <<favVars, spVars, synVars, ingVars, alVars, rpVars, pvVars,
                   engVars, clVars, ttsVars, stVars, pxVars, ycVars, vcVars,
                   dfVars, ctVars, auVars, cpVars, lpVars, cvVars, pkVars>>
    \/ TxOpen /\ UNCHANGED <<favVars, spVars, synVars, ingVars, alVars, rpVars, pvVars,
                   engVars, clVars, ttsVars, stVars, pxVars, ycVars, vcVars,
                   dfVars, ctVars, auVars, cpVars, lpVars, cvVars, pkVars>>
    \/ TxWrite /\ UNCHANGED <<favVars, spVars, synVars, ingVars, alVars, rpVars, pvVars,
                   engVars, clVars, ttsVars, stVars, pxVars, ycVars, vcVars,
                   dfVars, ctVars, auVars, cpVars, lpVars, cvVars, pkVars>>
    \/ ReadFavorites /\ UNCHANGED <<favVars, spVars, synVars, ingVars, alVars, rpVars, pvVars,
                   engVars, clVars, ttsVars, stVars, pxVars, ycVars, vcVars,
                   dfVars, ctVars, auVars, cpVars, lpVars, cvVars, pkVars>>
    \/ ReadTranscript /\ UNCHANGED <<favVars, spVars, synVars, ingVars, alVars, rpVars, pvVars,
                   engVars, clVars, ttsVars, stVars, pxVars, ycVars, vcVars,
                   dfVars, ctVars, auVars, cpVars, lpVars, cvVars, pkVars>>

SpecFiles == StartFiles /\ [][NextFiles]_vars

StartProxy ==
    InitProxy /\ IdleFav /\ IdleSplice /\ IdleSynth /\ IdleIngest /\
    IdleAlign /\ IdleReplace /\ IdlePreview /\ IdleEngines /\ IdleCleanup /\
    IdleTts /\ IdleStats /\ IdleFiles /\ IdleCache /\ IdleCatalog /\
    IdleDiff /\ IdleChatRace /\ IdleAudition /\ IdlePresets /\ IdleLatest /\
    IdleCustom /\ IdleKeys

NextProxy ==
    \/ ProxyStart /\ UNCHANGED <<favVars, spVars, synVars, ingVars, alVars, rpVars, pvVars,
                   engVars, clVars, ttsVars, stVars, fwVars, ycVars, vcVars,
                   dfVars, ctVars, auVars, cpVars, lpVars, cvVars, pkVars>>
    \/ ProxyOpen /\ UNCHANGED <<favVars, spVars, synVars, ingVars, alVars, rpVars, pvVars,
                   engVars, clVars, ttsVars, stVars, fwVars, ycVars, vcVars,
                   dfVars, ctVars, auVars, cpVars, lpVars, cvVars, pkVars>>
    \/ ProxyNext /\ UNCHANGED <<favVars, spVars, synVars, ingVars, alVars, rpVars, pvVars,
                   engVars, clVars, ttsVars, stVars, fwVars, ycVars, vcVars,
                   dfVars, ctVars, auVars, cpVars, lpVars, cvVars, pkVars>>
    \/ ProxyBroken /\ UNCHANGED <<favVars, spVars, synVars, ingVars, alVars, rpVars, pvVars,
                   engVars, clVars, ttsVars, stVars, fwVars, ycVars, vcVars,
                   dfVars, ctVars, auVars, cpVars, lpVars, cvVars, pkVars>>

SpecProxy == StartProxy /\ [][NextProxy]_vars

StartCache ==
    InitCache /\ IdleFav /\ IdleSplice /\ IdleSynth /\ IdleIngest /\
    IdleAlign /\ IdleReplace /\ IdlePreview /\ IdleEngines /\ IdleCleanup /\
    IdleTts /\ IdleStats /\ IdleFiles /\ IdleProxy /\ IdleCatalog /\
    IdleDiff /\ IdleChatRace /\ IdleAudition /\ IdlePresets /\ IdleLatest /\
    IdleCustom /\ IdleKeys

NextCache ==
    \/ CacheTranscribe /\ UNCHANGED <<favVars, spVars, synVars, ingVars, alVars, rpVars, pvVars,
                   engVars, clVars, ttsVars, stVars, fwVars, pxVars, vcVars,
                   dfVars, ctVars, auVars, cpVars, lpVars, cvVars, pkVars>>
    \/ CacheEstimate /\ UNCHANGED <<favVars, spVars, synVars, ingVars, alVars, rpVars, pvVars,
                   engVars, clVars, ttsVars, stVars, fwVars, pxVars, vcVars,
                   dfVars, ctVars, auVars, cpVars, lpVars, cvVars, pkVars>>

SpecCache == StartCache /\ [][NextCache]_vars

StartCatalog ==
    InitCatalog /\ IdleFav /\ IdleSplice /\ IdleSynth /\ IdleIngest /\
    IdleAlign /\ IdleReplace /\ IdlePreview /\ IdleEngines /\ IdleCleanup /\
    IdleTts /\ IdleStats /\ IdleFiles /\ IdleProxy /\ IdleCache /\
    IdleDiff /\ IdleChatRace /\ IdleAudition /\ IdlePresets /\ IdleLatest /\
    IdleCustom /\ IdleKeys

NextCatalog ==
    \/ ChangeArchive /\ UNCHANGED <<favVars, spVars, synVars, ingVars, alVars, rpVars, pvVars,
                   engVars, clVars, ttsVars, stVars, fwVars, pxVars, ycVars,
                   dfVars, ctVars, auVars, cpVars, lpVars, cvVars, pkVars>>
    \/ ChangeVoiceDir /\ UNCHANGED <<favVars, spVars, synVars, ingVars, alVars, rpVars, pvVars,
                   engVars, clVars, ttsVars, stVars, fwVars, pxVars, ycVars,
                   dfVars, ctVars, auVars, cpVars, lpVars, cvVars, pkVars>>
    \/ KokoroCatalog /\ UNCHANGED <<favVars, spVars, synVars, ingVars, alVars, rpVars, pvVars,
                   engVars, clVars, ttsVars, stVars, fwVars, pxVars, ycVars,
                   dfVars, ctVars, auVars, cpVars, lpVars, cvVars, pkVars>>
    \/ XttsCatalog /\ UNCHANGED <<favVars, spVars, synVars, ingVars, alVars, rpVars, pvVars,
                   engVars, clVars, ttsVars, stVars, fwVars, pxVars, ycVars,
                   dfVars, ctVars, auVars, cpVars, lpVars, cvVars, pkVars>>

SpecCatalog == StartCatalog /\ [][NextCatalog]_vars

StartDiff ==
    InitDiff /\ IdleFav /\ IdleSplice /\ IdleSynth /\ IdleIngest /\
    IdleAlign /\ IdleReplace /\ IdlePreview /\ IdleEngines /\ IdleCleanup /\
    IdleTts /\ IdleStats /\ IdleFiles /\ IdleProxy /\ IdleCache /\
    IdleCatalog /\ IdleChatRace /\ IdleAudition /\ IdlePresets /\
    IdleLatest /\ IdleCustom /\ IdleKeys

NextDiff ==
    \/ DiffStats /\ UNCHANGED <<favVars, spVars, synVars, ingVars, alVars, rpVars, pvVars,
                   engVars, clVars, ttsVars, stVars, fwVars, pxVars, ycVars,
                   vcVars, ctVars, auVars, cpVars, lpVars, cvVars, pkVars>>

SpecDiff == StartDiff /\ [][NextDiff]_vars

StartChatRace ==
    InitChatRace /\ IdleFav /\ IdleSplice /\ IdleSynth /\ IdleIngest /\
    IdleAlign /\ IdleReplace /\ IdlePreview /\ IdleEngines /\ IdleCleanup /\
    IdleTts /\ IdleStats /\ IdleFiles /\ IdleProxy /\ IdleCache /\
    IdleCatalog /\ IdleDiff /\ IdleAudition /\ IdlePresets /\ IdleLatest /\
    IdleCustom /\ IdleKeys

NextChatRace ==
    \/ (\E t \in ChatIds : ChatSnapshot(t)) /\ UNCHANGED <<favVars, spVars, synVars, ingVars, alVars, rpVars, pvVars,
                   engVars, clVars, ttsVars, stVars, fwVars, pxVars, ycVars,
                   vcVars, dfVars, auVars, cpVars, lpVars, cvVars, pkVars>>
    \/ (\E t \in ChatIds : ChatRun(t)) /\ UNCHANGED <<favVars, spVars, synVars, ingVars, alVars, rpVars, pvVars,
                   engVars, clVars, ttsVars, stVars, fwVars, pxVars, ycVars,
                   vcVars, dfVars, auVars, cpVars, lpVars, cvVars, pkVars>>
    \/ (\E t \in ChatIds : ChatCollect(t)) /\ UNCHANGED <<favVars, spVars, synVars, ingVars, alVars, rpVars, pvVars,
                   engVars, clVars, ttsVars, stVars, fwVars, pxVars, ycVars,
                   vcVars, dfVars, auVars, cpVars, lpVars, cvVars, pkVars>>

SpecChatRace == StartChatRace /\ [][NextChatRace]_vars

StartAudition ==
    InitAudition /\ IdleFav /\ IdleSplice /\ IdleSynth /\ IdleIngest /\
    IdleAlign /\ IdleReplace /\ IdlePreview /\ IdleEngines /\ IdleCleanup /\
    IdleTts /\ IdleStats /\ IdleFiles /\ IdleProxy /\ IdleCache /\
    IdleCatalog /\ IdleDiff /\ IdleChatRace /\ IdlePresets /\ IdleLatest /\
    IdleCustom /\ IdleKeys

NextAudition ==
    \/ Audition /\ UNCHANGED <<favVars, spVars, synVars, ingVars, alVars, rpVars, pvVars,
                   engVars, clVars, ttsVars, stVars, fwVars, pxVars, ycVars,
                   vcVars, dfVars, ctVars, cpVars, lpVars, cvVars, pkVars>>

SpecAudition == StartAudition /\ [][NextAudition]_vars

StartPresets ==
    InitPresets /\ IdleFav /\ IdleSplice /\ IdleSynth /\ IdleIngest /\
    IdleAlign /\ IdleReplace /\ IdlePreview /\ IdleEngines /\ IdleCleanup /\
    IdleTts /\ IdleStats /\ IdleFiles /\ IdleProxy /\ IdleCache /\
    IdleCatalog /\ IdleDiff /\ IdleChatRace /\ IdleAudition /\ IdleLatest /\
    IdleCustom /\ IdleKeys

NextPresets ==
    \/ CreatePreset /\ UNCHANGED <<favVars, spVars, synVars, ingVars, alVars, rpVars, pvVars,
                   engVars, clVars, ttsVars, stVars, fwVars, pxVars, ycVars,
                   vcVars, dfVars, ctVars, auVars, lpVars, cvVars, pkVars>>
    \/ FetchChatVoices /\ UNCHANGED <<favVars, spVars, synVars, ingVars, alVars, rpVars, pvVars,
                   engVars, clVars, ttsVars, stVars, fwVars, pxVars, ycVars,
                   vcVars, dfVars, ctVars, auVars, lpVars, cvVars, pkVars>>
    \/ PrepareChat /\ UNCHANGED <<favVars, spVars, synVars, ingVars, alVars, rpVars, pvVars,
                   engVars, clVars, ttsVars, stVars, fwVars, pxVars, ycVars,
                   vcVars, dfVars, ctVars, auVars, lpVars, cvVars, pkVars>>

SpecPresets == StartPresets /\ [][NextPresets]_vars

StartLatest ==
    InitLatest /\ IdleFav /\ IdleSplice /\ IdleSynth /\ IdleIngest /\
    IdleAlign /\ IdleReplace /\ IdlePreview /\ IdleEngines /\ IdleCleanup /\
    IdleTts /\ IdleStats /\ IdleFiles /\ IdleProxy /\ IdleCache /\
    IdleCatalog /\ IdleDiff /\ IdleChatRace /\ IdleAudition /\ IdlePresets /\
    IdleCustom /\ IdleKeys

NextLatest ==
    \/ ReplaceLatest /\ UNCHANGED <<favVars, spVars, synVars, ingVars, alVars, rpVars, pvVars,
                   engVars, clVars, ttsVars, stVars, fwVars, pxVars, ycVars,
                   vcVars, dfVars, ctVars, auVars, cpVars, cvVars, pkVars>>
    \/ ApplyLatest /\ UNCHANGED <<favVars, spVars, synVars, ingVars, alVars, rpVars, pvVars,
                   engVars, clVars, ttsVars, stVars, fwVars, pxVars, ycVars,
                   vcVars, dfVars, ctVars, auVars, cpVars, cvVars, pkVars>>

SpecLatest == StartLatest /\ [][NextLatest]_vars

StartCustom ==
    InitCustom /\ IdleFav /\ IdleSplice /\ IdleSynth /\ IdleIngest /\
    IdleAlign /\ IdleReplace /\ IdlePreview /\ IdleEngines /\ IdleCleanup /\
    IdleTts /\ IdleStats /\ IdleFiles /\ IdleProxy /\ IdleCache /\
    IdleCatalog /\ IdleDiff /\ IdleChatRace /\ IdleAudition /\ IdlePresets /\
    IdleLatest /\ IdleKeys

NextCustom ==
    \/ CreateCustomVoice /\ UNCHANGED <<favVars, spVars, synVars, ingVars, alVars, rpVars, pvVars,
                   engVars, clVars, ttsVars, stVars, fwVars, pxVars, ycVars,
                   vcVars, dfVars, ctVars, auVars, cpVars, lpVars, pkVars>>

SpecCustom == StartCustom /\ [][NextCustom]_vars

StartKeys ==
    InitKeys /\ IdleFav /\ IdleSplice /\ IdleSynth /\ IdleIngest /\
    IdleAlign /\ IdleReplace /\ IdlePreview /\ IdleEngines /\ IdleCleanup /\
    IdleTts /\ IdleStats /\ IdleFiles /\ IdleProxy /\ IdleCache /\
    IdleCatalog /\ IdleDiff /\ IdleChatRace /\ IdleAudition /\ IdlePresets /\
    IdleLatest /\ IdleCustom

NextKeys ==
    \/ PreviewPaths /\ UNCHANGED <<favVars, spVars, synVars, ingVars, alVars, rpVars, pvVars,
                   engVars, clVars, ttsVars, stVars, fwVars, pxVars, ycVars,
                   vcVars, dfVars, ctVars, auVars, cpVars, lpVars, cvVars>>

SpecKeys == StartKeys /\ [][NextKeys]_vars
----------------------------------------------------------------------------
(* Claims *)

\* C1: after any sequence of create, update and import_ calls no two stored
\* profiles have the same slug.
C1_SlugsInjective ==
    \A i, j \in 1..Len(profiles) :
        i # j => profiles[i].slug # profiles[j].slug

\* The same statement restricted to stores whose ids are pairwise distinct: the
\* truncation in update() alone breaks it.
C1_SlugsInjectiveDistinctIds ==
    (\A i, j \in 1..Len(profiles) : i # j => profiles[i].id # profiles[j].id)
        => C1_SlugsInjective


\* C8: every sample of the crossfade_splice output at an index outside
\* [i0 - fade, i1 + fade] equals the source sample at that index.
C8_OutsidePreserved ==
    (spOut.done /\ ~spOut.err) =>
        LET i0 == spIn.region[1]
            i1 == spIn.region[2]
            fade == FadeLen(spIn.fade_ms, Max(i1 - i0, 1))
        IN  \A k \in 0..(Len(spIn.source) - 1) :
                (k < i0 - fade \/ k > i1 + fade) => spOut.out[k + 1] = spIn.source[k + 1]


\* C2: whenever a synthesise hook returns a result, the file named by
\* result.filename exists under the output directory; a backend run that ends
\* without producing a file (timeout, non-zero exit, missing output) yields an
\* error and never a result.
C2_ResultBackedByFile ==
    synLast.route = "synthesise" =>
        /\ synLast.status = 200 => synLast.filename \in outDir
        /\ (synLast.exit \in {"timeout", "nonzero"}
                \/ (synLast.exit # "none" /\ ~synLast.wrote)) => synLast.status # 200

\* C2 as the code has it: a result is always backed by a file in the output
\* directory; a timeout or a non-zero exit always yields an error; a run that
\* left no output yields an error, except that a ChatTTS run exiting zero
\* without a new file returns the newest output_audio_*.mp3 already lying in
\* CHATTT_ROOT (when there is one and it can be moved) as its result.
C2_ResultBackedByFileOrStale ==
    synLast.route = "synthesise" =>
        LET fallback == synLast.engine = "chattts" /\ synLast.exit = "zero"
                            /\ ~synLast.wrote /\ synLast.stale
        IN  /\ synLast.status = 200 => synLast.filename \in outDir
            /\ synLast.exit \in {"timeout", "nonzero"} => synLast.status # 200
            /\ (synLast.exit # "none" /\ ~synLast.wrote /\ ~fallback) => synLast.status # 200
            /\ fallback => (synLast.status = 200 <=> synLast.moved)

\* a ChatTTS request answered with a file the run did not produce
C2_Witness ==
    /\ synLast.route = "synthesise"
    /\ synLast.engine = "chattts"
    /\ synLast.exit = "zero"
    /\ ~synLast.wrote
    /\ synLast.status = 200
    /\ synLast.filename \in outDir

\* C3: on /synthesise and /voices/preview a client-supplied voice that
\* resolves to a path outside the XTTS voice directory (these routes have no
\* job directory) is never handed to the engine as the speaker reference.
C3_VoiceInScope ==
    synLast.ref # <<>> => RelativeTo(synLast.ref, XTTS_VOICE_DIR)

\* The same for /voices/preview alone.
C3_PreviewVoiceInScope ==
    synLast.route = "preview" => C3_VoiceInScope


\* two URL-sourced requests in a row with the same URL, the first of which
\* completed its download, and no cache file reaped by the second
C4_SameUrlTwice ==
    /\ ingLast.url # <<>>
    /\ ingPrev.url = ingLast.url
    /\ ingPrev.completed
    /\ ~ingLast.reaped

\* C4: for any URL, of two successive URL-sourced transcribe requests with
\* that URL the second does not invoke the downloader and takes its input from
\* the ingest cache.
C4_SecondFromCache ==
    C4_SameUrlTwice => (~ingLast.downloaded /\ ingLast.hit)

\* C4 for the URLs the cache has a key for: when a video id can be extracted
\* from the URL (v=, youtu.be/ or shorts/ followed by at least six id
\* characters), the second request does not invoke the downloader and takes
\* its input from the ingest cache.
C4_SecondFromCacheWithId ==
    (C4_SameUrlTwice /\ yt_id(ingLast.url) # NoVid) => (~ingLast.downloaded /\ ingLast.hit)

\* the second of two such requests, answered from the cache
C4_Witness ==
    /\ C4_SameUrlTwice
    /\ yt_id(ingLast.url) # NoVid
    /\ ingLast.hit
    /\ ~ingLast.downloaded
    /\ ingLast.status = 200

\* number of entries of a word list with this text, start and end
C5_Count(ws, text, s, e) ==
    Cardinality({i \in 1..Len(ws) : ws[i].text = text /\ ws[i].start = s /\ ws[i].end = e})

\* a prior word overlaps the used window
C5_Overlaps(w) == w.end > alLast.region_start /\ w.start < alLast.region_end

\* C5: after an align_region call that updated the transcript, every timed
\* prior word not overlapping the used window is in the updated transcript with
\* its start and end, the overlapping prior words are gone, every newly aligned
\* word is there, nothing else is, and the list is sorted by start.
C5_MergeInvariant ==
    (alLast.valid /\ alLast.persisted) =>
        LET prior == alLast.prior
            kept == {i \in 1..Len(prior) : prior[i].timed /\ ~C5_Overlaps(prior[i])}
            KeptCount(w) ==
                Cardinality({i \in kept : StripCh(prior[i].text, " ") = w.text
                                            /\ prior[i].start = w.start /\ prior[i].end = w.end})
        IN  /\ \A i \in kept :
                \E j \in 1..Len(txWords) :
                    txWords[j].start = prior[i].start /\ txWords[j].end = prior[i].end
            /\ \A j \in 1..Len(alLast.new) :
                \E k \in 1..Len(txWords) : txWords[k] = alLast.new[j]
            /\ \A j \in 1..Len(txWords) :
                C5_Count(txWords, txWords[j].text, txWords[j].start, txWords[j].end)
                    = KeptCount(txWords[j])
                        + C5_Count(alLast.new, txWords[j].text, txWords[j].start, txWords[j].end)
            /\ Len(txWords) = Cardinality(kept) + Len(alLast.new)
            /\ \A i, j \in 1..Len(txWords) : i < j => txWords[i].start <= txWords[j].start

\* a call that kept a prior word, dropped another and added new ones
C5_Witness ==
    /\ alLast.valid
    /\ alLast.persisted
    /\ alLast.new # <<>>
    /\ \E i \in 1..Len(alLast.prior) : alLast.prior[i].timed /\ ~C5_Overlaps(alLast.prior[i])
    /\ \E i \in 1..Len(alLast.prior) : alLast.prior[i].timed /\ C5_Overlaps(alLast.prior[i])

\* C6: a valid align_region request (aligner enabled, transcribed job,
\* end > start, transcript text in the window, region cut and aligner
\* succeeding) is answered with a success response.
C6_ValidRequestSucceeds ==
    alLast.valid => alLast.status = 200


\* C3 on the third route: the speaker reference a /media/replace_preview
\* request hands to the engine lies in the voice directory or in the job
\* directory.
C3_ReplaceVoiceInScope ==
    (rpLast.op = "replace_preview" /\ rpLast.synth) =>
        \/ RelativeTo(rpLast.ref, XTTS_VOICE_DIR)
        \/ RelativeTo(rpLast.ref, media_job_dir(JobId))


\* C7: for a region with 0 <= start < end <= source duration the preview
\* written by /media/replace_preview has exactly as many samples as the job's
\* source.wav, whatever the length of the synthesised replacement.
C7_PreviewLength ==
    (/\ rpLast.op = "replace_preview"
     /\ rpLast.status = 200
     /\ 0 <= rpLast.start /\ rpLast.start < rpLast.end /\ rpLast.end <= SourceMs) =>
        /\ rpLast.samples = Len(JobSource)
        /\ \E f \in jobFiles, src \in jobFiles :
            /\ f.name = rpLast.preview
            /\ src.name = SourceWav
            /\ f.samples = src.samples

\* a preview written for a region inside the source
C7_Witness ==
    /\ rpLast.op = "replace_preview"
    /\ rpLast.status = 200
    /\ 0 < rpLast.start /\ rpLast.start < rpLast.end /\ rpLast.end < SourceMs
    /\ rpLast.preview \in FileNames(jobFiles)


\* C9: a /media/replace_preview request whose region is not inside the source
\* (end <= start, or start at or beyond the source duration) is answered 400
\* before any work is done, and no preview is written for it.
C9_RegionValidated ==
    (/\ rpLast.op = "replace_preview"
     /\ rpLast.jobId = JobId
     /\ rpLast.numeric
     /\ (rpLast.end <= rpLast.start \/ rpLast.start >= SourceMs)) =>
        /\ rpLast.status = 400
        /\ ~rpLast.cut
        /\ ~rpLast.synth
        /\ rpLast.preview = <<>>


\* C10: for a job with a latest preview, when the input recorded for the job
\* still exists and is reported to hold a video stream, /media/apply runs
\* ffmpeg on final.<ext>, ext being the requested format when that is one of
\* mp4, mkv, mov, webm and the (lower-cased) suffix of the input otherwise,
\* with Opus audio for webm and AAC otherwise, first copying the video stream
\* and re-encoding it (VP9 for webm, H.264 otherwise) only after the copy
\* failed, and answers mode "video" with that container once a command
\* succeeded; in every other case it writes final.wav from the latest preview
\* and answers mode "audio", container "wav".
C10_ApplyFinal ==
    (rpLast.op = "apply" /\ rpLast.jobId = JobId /\ rpLast.latest) =>
        LET video == jobMeta.meta /\ jobMeta.exists /\ rpLast.probed
            ext == IF rpLast.fmt \in {<<"m", "p", "4">>, <<"m", "k", "v">>, <<"m", "o", "v">>, <<"w", "e", "b", "m">>}
                   THEN <<".">> \o rpLast.fmt
                   ELSE LowerStr(PathSuffix(jobMeta.input_path))
            webm == ext = <<".", "w", "e", "b", "m">>
            cmds == rpLast.attempts
        IN  IF video
            THEN /\ Len(cmds) \in {1, 2}
                 /\ cmds[1].vcodec = "copy"
                 /\ \A i \in 1..Len(cmds) :
                        cmds[i].acodec = IF webm THEN "libopus" ELSE "aac"
                 /\ Len(cmds) = 2 =>
                        /\ ~cmds[1].ok
                        /\ cmds[2].vcodec = IF webm THEN "libvpx-vp9" ELSE "libx264"
                 /\ IF cmds[Len(cmds)].ok
                    THEN /\ rpLast.status = 200
                         /\ rpLast.mode = "video"
                         /\ rpLast.container = Tail(ext)
                         /\ rpLast.final = <<"f", "i", "n", "a", "l">> \o ext
                         /\ rpLast.final \in FileNames(jobFiles)
                    ELSE rpLast.status = 500 /\ Len(cmds) = 2
            ELSE /\ rpLast.status = 200
                 /\ rpLast.mode = "audio"
                 /\ rpLast.container = <<"w", "a", "v">>
                 /\ rpLast.final = <<"f", "i", "n", "a", "l", ".", "w", "a", "v">>
                 /\ cmds = <<>>
                 /\ \E f \in jobFiles, l \in jobFiles :
                        f.name = rpLast.final /\ l.name = LatestWav /\ f.samples = l.samples

\* a video written by the re-encode after the copy failed, in the container
\* of the input because the requested format is not one of the four
C10_Witness ==
    /\ rpLast.op = "apply"
    /\ rpLast.mode = "video"
    /\ rpLast.fmt = <<"a", "v", "i">>
    /\ rpLast.container = <<"m", "o", "v">>
    /\ Len(rpLast.attempts) = 2

\* C11: when a preview generator returned a path for a call without force, the
\* next call of the same generator with the same voice and language and
\* without force returns the same path, starts no engine run and leaves the
\* files of the preview directory as they are.
C11_PreviewIdempotent ==
    (/\ pvPrev.status = 200 /\ ~pvPrev.force /\ ~pvLast.force
     /\ pvLast.engine = pvPrev.engine /\ pvLast.voice = pvPrev.voice
     /\ pvLast.language = pvPrev.language) =>
        /\ pvLast.status = 200
        /\ pvLast.path = pvPrev.path
        /\ ~pvLast.synth
        /\ ~pvLast.wrote

\* a clip made by one call and returned from the cache by the next
C11_Witness ==
    /\ pvPrev.status = 200 /\ pvPrev.synth /\ pvPrev.wrote /\ ~pvPrev.force
    /\ pvLast.status = 200 /\ ~pvLast.force /\ ~pvLast.synth
    /\ pvLast.engine = pvPrev.engine /\ pvLast.voice = pvPrev.voice
    /\ pvLast.language = pvPrev.language
    /\ \E f \in pvFiles : f.path = pvLast.path /\ f.gen = pvCtr - 1

\* C12: a synthesise request naming a registered engine whose files are not
\* in place at the time of the request (or whose availability predicate
\* raises) is answered 503 before the prepare and the synthesise hook run,
\* whatever the requests before it found; it resolves the engine and calls the
\* prepare hook when the files are in place at that time; a listing request
\* resolves a registered engine whether it is available or not.
C12_AvailabilityFresh ==
    [][LET key == engLast'.key
           inPlace == /\ ~engLast'.raised
                      /\ \/ key = "kokoro" /\ {"model", "voices"} \subseteq engFiles
                         \/ key = "xtts" /\ (xttsServer \/ "xtts_cli" \in engFiles)
                         \/ key = "openvoice" /\ "openvoice" \in engFiles
                         \/ key = "chattts" /\ "chattts_root" \in engFiles
       IN  (engCtr' = engCtr + 1 /\ key \in ENGINE_REGISTRY) =>
            /\ (engLast'.route = "synthesise" /\ ~inPlace) =>
                    /\ engLast'.status = 503
                    /\ ~engLast'.resolved /\ ~engLast'.prepared /\ ~engLast'.ran
            /\ (engLast'.route = "synthesise" /\ inPlace) =>
                    engLast'.resolved /\ engLast'.prepared
            /\ engLast'.route = "list" => engLast'.resolved /\ engLast'.status = 200]_vars

\* a request refused with 503, then the same engine resolved and run once
\* its files are in place
C12_Witness ==
    /\ engPrev.status = 503
    /\ engLast.route = "synthesise" /\ engLast.key = engPrev.key
    /\ engLast.resolved /\ engLast.ran /\ engLast.status = 200

\* C13: under any interleaving of the cleanup calls, no two reaping passes
\* start within one cleanup interval of each other, and no call ends by
\* raising.
C13_OncePerInterval ==
    /\ \A i \in 1..Len(clPasses) : \A j \in (i + 1)..Len(clPasses) :
            clPasses[j].start - clPasses[i].start >= MEDIA_CLEANUP_INTERVAL_HOURS
    /\ clEnded \subseteq {"returned"}

\* the gate on the timestamps the calls read on entry: the passes were
\* admitted with timestamps at least one interval apart, the first call to
\* take the lock is admitted, and no call ends by raising
C13_GateOnEntryTimes ==
    /\ \A i \in 1..Len(clPasses) : \A j \in (i + 1)..Len(clPasses) :
            clPasses[j].now - clPasses[i].now >= MEDIA_CLEANUP_INTERVAL_HOURS
    /\ (clLast = NoTime) = (clPasses = <<>>)
    /\ clEnded \subseteq {"returned"}

\* C14: under any interleaving of get_tts calls, at most one Kokoro instance
\* is constructed, every call that returns got that instance, and a call that
\* raised left the handle unset.
C14_SingleInstance ==
    /\ ttsBuilt <= 1
    /\ \A o \in ttsOut :
        /\ ~o.raised => o.got = 1 /\ ttsInstance = 1
        /\ o.raised => o.handle = 0

\* a call raised while the files were missing, a later call built the
\* instance, and both threads returned it
C14_Witness ==
    /\ \E o \in ttsOut : o.raised
    /\ \A t \in TtsIds : \E o \in ttsOut : o.thread = t /\ ~o.raised /\ o.got = 1
    /\ ttsBuilt = 1

\* C15: once the concurrent _record_stat calls have returned, the sample of
\* every call is in the list of its kind in the stats file, unless 100 later
\* samples of that kind pushed it out.
C15_BothPresent ==
    (\A t \in StatIds : stPc[t] = "idle") =>
        \A d \in stDone :
            \/ stFile.state = "ok" /\ \E i \in 1..Len(stFile.data[d.kind]) :
                                        stFile.data[d.kind][i] = d.sample
            \/ Cardinality({e \in stDone : e.kind = d.kind /\ e.sample > d.sample}) >= StatsCap

\* C16: after any sequence of _record_stat calls every list of the stats file
\* holds at most 100 samples, namely the last samples written for its kind in
\* the order they were written, and every call returned normally, whatever
\* the read, the parse and the write did.
C16_StatsBounded ==
    /\ stFile.state = "ok" =>
        \A k \in StatKinds :
            /\ Len(stFile.data[k]) <= StatsCap
            /\ stFile.data[k] = SubSeq(stHist[k], Max(1, Len(stHist[k]) - StatsCap + 1),
                                       Len(stHist[k]))
    /\ \A d \in stDone : d.ended = "returned"

\* a full list that lost its two oldest samples to two later ones, after a
\* call whose write failed and that returned all the same
C16_Witness ==
    /\ stFile.state = "ok"
    /\ Len(stFile.data["transcribe"]) = StatsCap
    /\ stFile.data["transcribe"][1] = 3
    /\ \E d \in stDone : ~d.recorded

\* C17: a reader running concurrently with a writer of transcript.json or of
\* the favorites file reads the complete old document or the complete new
\* one, never an empty or partly written file.
C17_ReaderSeesComplete == \A o \in fwSeen : Complete(o.text)

\* the favorites file alone: every read of it returns a complete document
C17_FavoritesComplete ==
    \A o \in fwSeen : o.file = "favorites" => Complete(o.text)

\* C18: in streaming mode the frames are the {status:"starting"} frame, sent
\* before the upstream connection is opened, then one data frame for each
\* non-blank line the upstream sent, in order; the stream ends only when the
\* upstream closes (a connection that never opened or that broke counts as
\* closed).
C18_FrameSequence ==
    /\ pxFrames # <<>> => pxFrames[1] = StartingFrame
    /\ pxAnswer # "none" => pxOpenAt = 1
    /\ pxEnd # "none" =>
        /\ pxFrames = <<StartingFrame>> \o [i \in 1..Len(NonBlank(pxBody)) |->
                                              DataFrame(NonBlank(pxBody)[i])]
        /\ pxEnd \in {"upstream_closed", "upstream_broke", "connect_raised"}

\* the part of the sequence that holds for every upstream: the starting
\* frame is first and precedes requests.post, and the data frames are the
\* non-blank lines read so far, in order
C18_StartingThenLinesRead ==
    /\ pxFrames # <<>> => pxFrames[1] = StartingFrame
    /\ pxAnswer # "none" => pxOpenAt = 1
    /\ pxAnswer = "ok" =>
        pxFrames = <<StartingFrame>> \o
            [i \in 1..Len(NonBlank(SubSeq(pxBody, 1, Len(pxBody) - Len(pxLeft)))) |->
                DataFrame(NonBlank(SubSeq(pxBody, 1, Len(pxBody) - Len(pxLeft)))[i])]
    /\ pxAnswer = "error" => pxFrames = <<StartingFrame>> /\ pxEnd = "status_raised"

\* C19: job directories are created only by transcribe: a media request
\* that names a job for which no job exists fails and creates no directory
\* for that id, so the only directory is that of the transcribed job.
C19_NoDirForUnknownJob == mediaDirs \subseteq {JobId}

\* C20: a reaping pass treats the audio file of an id and its metadata JSON
\* as one unit: it removes both or neither, and never removes the audio file
\* of an id while it keeps that id's metadata JSON.
C20_EntryReapedWhole ==
    \A f \in ycReaped : \A g \in ycKept : g.name # f.name

\* C21: for every engine, a successful catalog read returns the profiles
\* derived from the contents its voice source has on disk at the time of
\* the read, not from the contents at first load.
C21_CatalogFollowsSource ==
    /\ (vcLast.engine = "kokoro" /\ vcLast.status = 200) =>
            vcLast.archive.exists /\ vcLast.ids = ArchiveProfiles(vcLast.archive)
    /\ vcLast.engine = "xtts" =>
            vcLast.ids = VoiceMapIds(VoiceMapFrom(vcLast.listing, <<>>))

\* the XTTS catalog alone follows the voice directory
C21_XttsFollowsDirectory ==
    vcLast.engine = "xtts" =>
        /\ Len(vcLast.ids) = Len(vcLast.listing)
        /\ \A i \in 1..Len(vcLast.ids) : vcLast.ids[i] = <<vcLast.listing[i][1]>>

\* the pairs compared: index i of both lists after the window filter, for i
\* up to the shorter length
C22_Prev == IF dfIn.window = <<>> THEN dfIn.prev
            ELSE SelectSeq(dfIn.prev, LAMBDA w : in_win(w, dfIn.window[1], dfIn.window[2]))
C22_New == IF dfIn.window = <<>> THEN dfIn.new
           ELSE SelectSeq(dfIn.new, LAMBDA w : in_win(w, dfIn.window[1], dfIn.window[2]))
C22_Pairs == {i \in 1..Min(Len(C22_Prev), Len(C22_New)) :
                C22_Prev[i].numeric /\ C22_New[i].numeric}
C22_Matching == {i \in C22_Pairs : C22_Prev[i].text = C22_New[i].text}

\* C22: pairs are compared by index over min(len(prev), len(new)); a pair
\* whose texts differ is counted in text_mismatch and adds nothing to the
\* delta figures nor to the top list, which has at most 10 entries in
\* decreasing absolute delta.
C22_MismatchIgnored ==
    (dfDone /\ dfOut.compared > 0) =>
        /\ dfOut.compared = Min(Len(C22_Prev), Len(C22_New))
        /\ dfOut.text_mismatch = Cardinality(C22_Pairs \ C22_Matching)
        /\ dfOut.count_abs = Cardinality(C22_Matching)
        /\ dfOut.sum_abs_ms =
                SumSeq([i \in 1..Min(Len(C22_Prev), Len(C22_New)) |->
                            IF i \in C22_Matching THEN PairDval(C22_Prev[i], C22_New[i])
                            ELSE 0])
        /\ \A i \in C22_Matching : dfOut.max_abs_ms >= PairDval(C22_Prev[i], C22_New[i])
        /\ C22_Matching = {} => dfOut.max_abs_ms = 0
        /\ C22_Matching # {} =>
                \E i \in C22_Matching : dfOut.max_abs_ms = PairDval(C22_Prev[i], C22_New[i])
        /\ Len(dfOut.top) <= TopMax
        /\ \A k \in 1..(Len(dfOut.top) - 1) :
                AbsInt(dfOut.top[k].delta_ms) >= AbsInt(dfOut.top[k + 1].delta_ms)

\* what holds of the top list and the counts: the top list has no pair
\* whose texts differ, at most 10 entries, in decreasing absolute delta
C22_TopList ==
    (dfDone /\ dfOut.compared > 0) =>
        /\ dfOut.compared = Min(Len(C22_Prev), Len(C22_New))
        /\ dfOut.text_mismatch = Cardinality(C22_Pairs \ C22_Matching)
        /\ Len(dfOut.top) = Min(TopMax, Cardinality(C22_Matching))
        /\ \A k \in 1..Len(dfOut.top) : (dfOut.top[k].idx + 1) \in C22_Matching
        /\ \A k \in 1..(Len(dfOut.top) - 1) :
                AbsInt(dfOut.top[k].delta_ms) >= AbsInt(dfOut.top[k + 1].delta_ms)

\* C23: when ChatTTS requests run concurrently, a request that returns a
\* file returns the one its own run wrote, and a request whose run wrote a
\* file does not fail.
C23_OwnFile ==
    \A d \in ctDone :
        /\ (d.status = 200 /\ d.wrote) => d.got = d.req
        /\ d.wrote => d.status = 200

\* with distinct file names and no overlap in time the request gets its own
\* file: a request that ran alone from an empty directory
C23_AloneOwnFile ==
    \A d \in ctDone : (d.req = 1 /\ ctCalls = 1 /\ d.wrote) => (d.status = 200 /\ d.got = 1)

\* the inter-voice gap of the latest audition, in samples
C24_Gap == Max(TruncDiv(auLast.rate * auLast.gap, 2), 0)
\* the silence after one announcer clip, in samples
C24_AnnouncerGap ==
    IF auLast.enabled /\ auLast.ann_gap > 0
    THEN TruncDiv(auLast.rate * auLast.ann_gap, 2) ELSE 0

\* C24 as stated: the combined clip of n >= 2 voices is as long as the voice
\* clips plus n - 1 gaps plus, with the announcer, the announcer clips.
C24_LengthAsStated ==
    auLast.status = 200 =>
        auLast.length = auLast.voiced + (auLast.n - 1) * C24_Gap + auLast.announced

\* C24: the combined clip of n >= 2 voices is as long as the voice clips
\* plus n - 1 gaps plus, with the announcer, the announcer clips and n times
\* the silence that follows an announcer clip; voice clips of different
\* sample rates end the request with status 500.
C24_LengthWithAnnouncerGaps ==
    /\ auLast.mixed => auLast.status = 500
    /\ auLast.status = 200 =>
        /\ auLast.n >= 2
        /\ auLast.length = auLast.voiced + (auLast.n - 1) * C24_Gap + auLast.announced
                               + auLast.n * C24_AnnouncerGap

C24_Witness ==
    /\ auLast.status = 200
    /\ auLast.n = 3
    /\ auLast.enabled
    /\ auLast.ann_gap > 0
    /\ auLast.gap > 0
    /\ auLast.length = auLast.voiced + 2 * C24_Gap + auLast.announced + 3 * C24_AnnouncerGap
    /\ C24_AnnouncerGap > 0

\* C25: whenever transcribe treats a URL as a cache hit and skips the
\* downloader, the file it resolves as its input is a downloaded audio file
\* of that id, never the <id>.info.json sidecar.
C25_HitIsAudio == ycInput.hit => ycInput.ext # MetaExt

\* C26: a ChatTTS request whose voice is the id of an existing preset is
\* prepared with that preset's speaker and, when the preset has one, its
\* seed, whether or not the voice catalog was fetched since the process
\* started or since the preset was created.
C26_PresetApplied ==
    cpLast.prepared =>
        \A p \in cpLast.presets :
            cpLast.payload.voice_id = PresetVoiceId(p.id) =>
                /\ cpLast.payload.speaker = normalise_chattts_speaker(p.speaker)
                /\ p.seed # NoSeed => cpLast.payload.seed = p.seed

\* the audio the most recent successful replace_preview call spliced: the
\* original source.wav with that call's region replaced
C27_Expected == PreviewAudio(LatestSource, lpLast.req).out

\* C27: after any sequence of successful replace_preview calls on a job,
\* latest_preview.wav exists and holds the original source.wav with only the
\* most recent call's region replaced, and an apply that follows uses exactly
\* that audio.
C27_LatestIsRecentSplice ==
    lpLast.status = 200 =>
        /\ lpLatest.kind # "absent"
        /\ ReadLatest(lpLatest, lpPreviews) = C27_Expected
        /\ lpFinal.at = lpCtr => lpFinal.status = 200 /\ lpFinal.audio = C27_Expected

\* whenever the update of latest_preview.wav went through, the file holds the
\* splice of the most recent call into the original source, never into an
\* earlier preview, and apply uses it
C27_UpdatedLatestIsRecentSplice ==
    lpLast.status = 200 /\ lpLast.updated =>
        /\ lpLatest.kind # "absent"
        /\ ReadLatest(lpLatest, lpPreviews) = C27_Expected
        /\ lpFinal.at = lpCtr => lpFinal.status = 200 /\ lpFinal.audio = C27_Expected

\* the file the voice map of the directory gives for the id the last creation
\* returned
C28_Resolved ==
    {e.path[Len(e.path)] : e \in {x \in VoiceMapOf(cvDir) : x.id = cvLast.voice_id}}

\* C28: for any prior contents of the XTTS voice directory, the voice id a
\* successful custom-voice creation returns resolves through the voice map to
\* the reference file the creation just wrote, and the creation overwrites
\* neither an existing voice file nor the sidecar of an existing voice.
C28_CreatedVoiceResolves ==
    cvLast.status = 200 =>
        /\ C28_Resolved = {cvLast.out}
        /\ cvLast.out \notin cvLast.before
        /\ cvLast.wrote_sidecar =>
              ~(\E v \in VoiceFiles(cvLast.before) :
                    SidecarOf(v) = cvLast.sidecar /\ cvLast.sidecar \in cvLast.before)

\* the reference file itself is always a new file of the directory
C28_NoVoiceFileOverwritten ==
    cvLast.status = 200 => cvLast.out \notin cvLast.before /\ cvLast.out \in cvDir

\* C29: the preview cache path is injective in its key: two distinct
\* (engine, voice_id, language_key) triples never map to the same preview file.
C29_PathInjective ==
    pkOut.done /\ KeyTriple(pkIn[1].engine, pkIn[1].voice_id, pkIn[1].language)
                    # KeyTriple(pkIn[2].engine, pkIn[2].voice_id, pkIn[2].language)
        => pkOut.first # pkOut.second

\* previews of different engines never share a file when the voice id is not
\* an absolute path
C29_EnginesApart ==
    pkOut.done /\ pkIn[1].engine # pkIn[2].engine => pkOut.first # pkOut.second

\* C30: after any sequence of create, update, delete and import_ operations no
\* two stored profiles share the same id.
C30_UniqueIds ==
    \A i, j \in 1..Len(profiles) : i # j => profiles[i].id # profiles[j].id

====
